---- MODULE Spec2Model ----
(***************************************************************************)
(* git-mfpr: the migration orchestrator of internal/migrate/migrate.go     *)
(* (MigratePR, MigratePRs, parsePRRef, validatePRState, GenerateBranchName)*)
(* over the Git provider and the GitHub provider it calls.                 *)
(*                                                                         *)
(* Go strings are TLA+ strings; a byte of a string s is SubSeq(s, i, i).   *)
(* A nil error is Nil, any other error is a record with a "kind" field.    *)
(***************************************************************************)
EXTENDS Integers, Sequences, FiniteSets, TLC

VARIABLES
    top,          \* which entry point is running: "idle", "MigratePR", "MigratePRs", "returned"
    prRefs,       \* the references given to the entry point
    opts,         \* the Options value given to the entry point
    idx,          \* position of the range loop of MigratePRs (1 for MigratePR)
    pc,           \* position of the running MigratePR, "none" between runs
    target,       \* owner, repo, number as returned by parsePRRef
    pr,           \* the PRInfo returned by GetPR
    branchName,   \* the local branchName of MigratePR and of GenerateBranchName
    titleSlug,    \* the titleSlug a caller of slugify was given
    ret,          \* what the last MigratePR returned
    errors,       \* the errors slice of MigratePRs
    successCount, \* the successCount of MigratePRs
    batchRet,     \* what MigratePRs returned
    calls,        \* every collaborator call made so far, in order, with its result
    events,       \* every Event handed to the handler so far, in order
    current,      \* the checked-out branch of the working tree
    locals,       \* the local branches of the repository
    origin,       \* the branches of the origin remote
    remoteURL,    \* what `git remote get-url origin` prints, NoRemote when it fails
    cancelled,    \* whether the context given to the entry point is cancelled
    before,       \* current, locals and origin as they were when the running MigratePR began
    runs,         \* every invocation of MigratePR so far: loop position, reference, what it returned
    handler,      \* the handler field of the Client: the EventHandler installed last
    cli           \* the command line's run(): its loop, its flag, its UI and how it exited

vars == <<top, prRefs, opts, idx, pc, target, pr, branchName, titleSlug, ret, errors,
          successCount, batchRet, calls, events, current, locals, origin,
          remoteURL, cancelled, before, runs, handler, cli>>

-----------------------------------------------------------------------------
(* Bounds of the model.                                                    *)

MaxRefs == 2        \* longest reference list given to MigratePRs
MaxPRNumber == 2    \* largest PR number the GitHub provider reports

-----------------------------------------------------------------------------
(* The package strings, as far as migrate.go and the Git provider use it.  *)

\* A Go expression is evaluated once, where it is assigned or passed; value is
\* computed here once and body sees the result.
Eval(value, body(_)) == CHOOSE r \in {body(v) : v \in {value}} : TRUE

Char(s, i) == SubSeq(s, i, i)

HasPrefix(s, p) == Len(s) >= Len(p) /\ SubSeq(s, 1, Len(p)) = p

HasSuffix(s, p) == Len(s) >= Len(p) /\ SubSeq(s, Len(s) - Len(p) + 1, Len(s)) = p

TrimPrefix(s, p) == IF HasPrefix(s, p) THEN SubSeq(s, Len(p) + 1, Len(s)) ELSE s

TrimSuffix(s, p) == IF HasSuffix(s, p) THEN SubSeq(s, 1, Len(s) - Len(p)) ELSE s

\* strings.Index, 1-based; 0 when sub does not occur in s.
Index(str, sub) ==
    LET first(hits) == IF hits = {} THEN 0 ELSE CHOOSE i \in hits : \A j \in hits : i <= j
        find(s) == Eval({i \in 1..(Len(s) - Len(sub) + 1) : SubSeq(s, i, i + Len(sub) - 1) = sub}, first)
    IN  Eval(str, find)

LastIndex(str, sub) ==
    LET last(hits) == IF hits = {} THEN 0 ELSE CHOOSE i \in hits : \A j \in hits : i >= j
        find(s) == Eval({i \in 1..(Len(s) - Len(sub) + 1) : SubSeq(s, i, i + Len(sub) - 1) = sub}, last)
    IN  Eval(str, find)

Contains(s, sub) == Index(s, sub) # 0

\* strings.Split for a non-empty separator.
RECURSIVE Split(_, _)
Split(str, sep) ==
    LET cut(s, i) == IF i = 0 THEN <<s>>
                     ELSE <<SubSeq(s, 1, i - 1)>> \o Split(SubSeq(s, i + Len(sep), Len(s)), sep)
        at(s) == Eval(Index(s, sep), LAMBDA i : cut(s, i))
    IN  Eval(str, at)

RECURSIVE TrimLeft(_, _)
TrimLeft(str, c) ==
    Eval(str, LAMBDA s : IF Len(s) > 0 /\ Char(s, 1) = c THEN TrimLeft(Tail(s), c) ELSE s)

RECURSIVE TrimRight(_, _)
TrimRight(str, c) ==
    Eval(str, LAMBDA s : IF Len(s) > 0 /\ Char(s, Len(s)) = c
                         THEN TrimRight(SubSeq(s, 1, Len(s) - 1), c) ELSE s)

\* strings.Trim with a one-byte cutset.
Trim(s, c) == TrimRight(TrimLeft(s, c), c)

UpperLetters == "ABCDEFGHIJKLMNOPQRSTUVWXYZ"
LowerLetters == "abcdefghijklmnopqrstuvwxyz"
Digits == "0123456789"

ToLowerChar(c) ==
    Eval(Index(UpperLetters, c), LAMBDA i : IF i = 0 THEN c ELSE Char(LowerLetters, i))

\* The strings pieces[lo], ..., pieces[hi] one after the other.
RECURSIVE Concat(_, _, _)
Concat(pieces, lo, hi) ==
    IF lo > hi THEN ""
    ELSE IF lo = hi THEN pieces[lo]
    ELSE Eval((lo + hi) \div 2,
              LAMBDA mid : Concat(pieces, lo, mid) \o Concat(pieces, mid + 1, hi))

ToLower(str) ==
    Eval(str, LAMBDA s :
        Eval([i \in 1..Len(s) |-> ToLowerChar(Char(s, i))],
             LAMBDA lowered : Concat(lowered, 1, Len(s))))

\* strings.EqualFold on ASCII text: equal byte by byte once letter case is folded.
EqualFold(s, t) ==
    LET fold(a, b) == /\ Len(a) = Len(b)
                      /\ \A i \in 1..Len(a) : ToLowerChar(Char(a, i)) = ToLowerChar(Char(b, i))
    IN  Eval(s, LAMBDA a : Eval(t, LAMBDA b : fold(a, b)))

RECURSIVE Join(_, _)
Join(list, sep) ==
    Eval(list, LAMBDA l : IF l = <<>> THEN ""
                          ELSE IF Len(l) = 1 THEN l[1]
                          ELSE l[1] \o sep \o Join(Tail(l), sep))

IsDigit(c) == Index(Digits, c) # 0

RECURSIVE DigitsValue(_)
DigitsValue(str) ==
    Eval(str, LAMBDA s :
        IF s = "" THEN 0
        ELSE 10 * DigitsValue(SubSeq(s, 1, Len(s) - 1)) + (Index(Digits, Char(s, Len(s))) - 1))

\* strconv.Atoi: an optional sign and then at least one decimal digit.  The
\* references of this model are too short for the value to leave the int range.
Atoi(str) ==
    LET signed(s) == Len(s) > 0 /\ Char(s, 1) \in {"+", "-"}
        wellFormed(body) == Len(body) > 0 /\ \A i \in 1..Len(body) : IsDigit(Char(body, i))
        value(s, body) ==
            IF ~wellFormed(body) THEN [ok |-> FALSE, val |-> 0]
            ELSE [ok |-> TRUE,
                  val |-> IF signed(s) /\ Char(s, 1) = "-" THEN 0 - DigitsValue(body)
                          ELSE DigitsValue(body)]
    IN  Eval(str, LAMBDA s : Eval(IF signed(s) THEN Tail(s) ELSE s, LAMBDA body : value(s, body)))

Itoa(n) == ToString(n)

-----------------------------------------------------------------------------
(* Errors.                                                                  *)

Nil == [kind |-> "nil"]

\* fmt.Errorf with %w: a new error that wraps err.
Wrap(msg, err) == [kind |-> "wrapped", msg |-> msg, inner |-> err]

\* fmt.Errorf without a verb.
Errorf(msg) == [kind |-> "errorString", msg |-> msg]

\* ErrInvalidPRRef built without the reference it is about.
ErrInvalidPRRef_noRef(ref) == [kind |-> "ErrInvalidPRRef", Ref |-> ""]
ErrInvalidPRRef(ref) == [kind |-> "ErrInvalidPRRef", Ref |-> ref]
ErrPRNotFork(n) == [kind |-> "ErrPRNotFork", Number |-> n]
ErrPRClosed(n, state) == [kind |-> "ErrPRClosed", Number |-> n, State |-> state]
ErrBranchExists(name) == [kind |-> "ErrBranchExists", BranchName |-> name]

\* The Git provider's and the GitHub provider's errors.
ErrGetRemoteURLFailed(detail) == [kind |-> "ErrGetRemoteURLFailed", Detail |-> detail]
ErrInvalidRemoteURL(u) == [kind |-> "ErrInvalidRemoteURL", URL |-> u]
ErrCheckoutFailed(branch, detail) == [kind |-> "ErrCheckoutFailed", Branch |-> branch, Detail |-> detail]
ErrPullFailed(remote, branch, detail) ==
    [kind |-> "ErrPullFailed", Remote |-> remote, Branch |-> branch, Detail |-> detail]
ErrPushFailed(remote, branch, detail) ==
    [kind |-> "ErrPushFailed", Remote |-> remote, Branch |-> branch, Detail |-> detail]
ErrPRNotFound(n, owner, repo) == [kind |-> "ErrPRNotFound", Number |-> n, Owner |-> owner, Repo |-> repo]
ErrPRFetchFailed(n, owner, repo, detail) ==
    [kind |-> "ErrPRFetchFailed", Number |-> n, Owner |-> owner, Repo |-> repo, Detail |-> detail]
ErrPRCheckoutFailed(n, detail) == [kind |-> "ErrPRCheckoutFailed", Number |-> n, Detail |-> detail]

\* The Error() methods.
RECURSIVE ErrorText(_)
ErrorText(err) ==
  Eval(err, LAMBDA e :
    CASE e.kind = "ErrInvalidPRRef" -> "unsupported PR reference format: " \o e.Ref
      [] e.kind = "ErrPRNotFork" -> "PR #" \o Itoa(e.Number) \o " is not from a fork"
      [] e.kind = "ErrPRClosed" -> "PR #" \o Itoa(e.Number) \o " is " \o e.State
      [] e.kind = "ErrBranchExists" ->
            "branch " \o e.BranchName \o " already exists. Use --branch-name to specify a different name or delete the existing branch"
      [] e.kind = "ErrGetRemoteURLFailed" -> "failed to get remote URL: " \o e.Detail
      [] e.kind = "ErrInvalidRemoteURL" -> "invalid remote URL format: " \o e.URL
      [] e.kind = "ErrCheckoutFailed" ->
            "failed to checkout branch " \o e.Branch \o ": " \o e.Detail
      [] e.kind = "ErrPullFailed" ->
            "failed to pull " \o e.Remote \o "/" \o e.Branch \o ": " \o e.Detail
      [] e.kind = "ErrPushFailed" ->
            "failed to push to " \o e.Remote \o "/" \o e.Branch \o ": " \o e.Detail
      [] e.kind = "ErrPRNotFound" ->
            "PR #" \o Itoa(e.Number) \o " not found in " \o e.Owner \o "/" \o e.Repo
      [] e.kind = "ErrPRFetchFailed" ->
            "failed to fetch PR #" \o Itoa(e.Number) \o " from " \o e.Owner \o "/" \o e.Repo \o ": " \o e.Detail
      [] e.kind = "ErrPRCheckoutFailed" ->
            "failed to checkout PR #" \o Itoa(e.Number) \o ": " \o e.Detail
      [] e.kind = "wrapped" -> e.msg \o ": " \o ErrorText(e.inner)
      [] e.kind = "errorString" -> e.msg
      [] OTHER -> "")

-----------------------------------------------------------------------------
(* The Git provider.  Every method runs one git command under the context  *)
(* it is given; the command fails when that context is cancelled, and it   *)
(* may fail for reasons of its own (commandOK = FALSE).                    *)

NoRemote == "<no origin remote>"

\* What cmd.Run() reports of a command that did not succeed.
Detail(ctxCancelled) == IF ctxCancelled THEN "context canceled" ELSE "exit status 1"

\* CurrentRepo: owner and repository name out of the origin remote's URL.
CurrentRepo(url, ctxCancelled) ==
    LET fail(e) == [err |-> e, owner |-> "", repo |-> ""]
    IN  IF url = NoRemote \/ ctxCancelled
        THEN fail(ErrGetRemoteURLFailed(Detail(ctxCancelled)))
        ELSE IF HasPrefix(url, "git@github.com:")
        THEN LET split == Split(TrimSuffix(TrimPrefix(url, "git@github.com:"), ".git"), "/")
             IN  IF Len(split) # 2 THEN fail(ErrInvalidRemoteURL(url))
                 ELSE [err |-> Nil, owner |-> split[1], repo |-> split[2]]
        ELSE IF Contains(url, "github.com")
        THEN LET parts == Split(url, "github.com/")
             IN  IF Len(parts) # 2 THEN fail(ErrInvalidRemoteURL(url))
                 ELSE LET split == Split(TrimSuffix(parts[2], ".git"), "/")
                      IN  IF Len(split) # 2 THEN fail(ErrInvalidRemoteURL(url))
                          ELSE [err |-> Nil, owner |-> split[1], repo |-> split[2]]
        ELSE fail(ErrInvalidRemoteURL(url))

\* HasBranch: `git show-ref --verify refs/heads/name` exited with status 0.
HasBranch(branches, name, commandOK) == commandOK /\ name \in branches

Checkout(branch, commandOK, ctxCancelled) ==
    IF commandOK THEN Nil ELSE ErrCheckoutFailed(branch, Detail(ctxCancelled))

Pull(remote, branch, commandOK, ctxCancelled) ==
    IF commandOK THEN Nil ELSE ErrPullFailed(remote, branch, Detail(ctxCancelled))

Push(remote, branch, commandOK, ctxCancelled) ==
    IF commandOK THEN Nil ELSE ErrPushFailed(remote, branch, Detail(ctxCancelled))

-----------------------------------------------------------------------------
(* net/url.Parse, for a raw URL that begins with http:// or https://: the  *)
(* fragment is cut at the first '#', the query at the first '?', the       *)
(* authority ends at the first '/', and a port must be decimal.  The model *)
(* has no '%', no user info and no control bytes in its URLs.              *)

URLParse(raw) ==
    LET upTo(s, i) == IF i = 0 THEN s ELSE SubSeq(s, 1, i - 1)
        from(s, i)   == IF i = 0 THEN "" ELSE SubSeq(s, i, Len(s))
        portOf(host) == Eval(LastIndex(host, ":"),
                             LAMBDA colon : IF colon = 0 THEN "" ELSE SubSeq(host, colon + 1, Len(host)))
        portOK(port) == \A i \in 1..Len(port) : IsDigit(Char(port, i))
        result(rest, slash) ==
            IF portOK(portOf(upTo(rest, slash)))
            THEN [err |-> Nil, Path |-> from(rest, slash)]
            ELSE [err |-> Errorf("parse " \o raw \o ": invalid port"), Path |-> ""]
    IN  Eval(upTo(raw, Index(raw, "#")), LAMBDA noFrag :
        Eval(SubSeq(noFrag, Index(noFrag, ":") + 1, Len(noFrag)), LAMBDA afterSch :
        Eval(upTo(afterSch, Index(afterSch, "?")), LAMBDA noQuery :
        Eval(SubSeq(noQuery, 3, Len(noQuery)), LAMBDA rest :
        Eval(Index(rest, "/"), LAMBDA slash : result(rest, slash))))))

-----------------------------------------------------------------------------
(* parsePRRef.  The bare-number form asks the Git provider for the current *)
(* repository, under context.Background(); `called` tells the caller that  *)
(* this call was made.                                                     *)

\* parsePRRef taking any text before the '#' for the repository.
parsePRRef_anyRepoPart(prRef, url) ==
    LET fail(e, c) == [err |-> e, owner |-> "", repo |-> "", number |-> 0, called |-> c]
        num == Atoi(prRef)
    IN  IF num.ok
        THEN LET cr == CurrentRepo(url, FALSE)
             IN  IF cr.err # Nil
                 THEN fail(Wrap("not in a git repository or no origin remote", cr.err), TRUE)
                 ELSE [err |-> Nil, owner |-> cr.owner, repo |-> cr.repo,
                       number |-> num.val, called |-> TRUE]
        ELSE IF HasPrefix(prRef, "http://") \/ HasPrefix(prRef, "https://")
        THEN LET u == URLParse(prRef)
                 parts == Split(Trim(u.Path, "/"), "/")
             IN  IF u.err # Nil THEN fail(Wrap("invalid URL", u.err), FALSE)
                 ELSE IF Len(parts) # 4 \/ parts[3] # "pull"
                 THEN fail(Errorf("invalid GitHub PR URL format"), FALSE)
                 ELSE LET n == Atoi(parts[4])
                      IN  IF ~n.ok
                          THEN fail(Wrap("invalid PR number in URL",
                                         Errorf("strconv.Atoi: parsing " \o parts[4] \o ": invalid syntax")), FALSE)
                          ELSE [err |-> Nil, owner |-> parts[1], repo |-> parts[2],
                                number |-> n.val, called |-> FALSE]
        ELSE IF Contains(prRef, "#")
        THEN LET parts == Split(prRef, "#")
             IN  IF Len(parts) # 2
                 THEN fail(Errorf("invalid format, expected owner/repo#number"), FALSE)
                 ELSE LET n == Atoi(parts[2])
                          repoParts == Split(parts[1], "/")
                      IN  IF ~n.ok
                          THEN fail(Wrap("invalid PR number",
                                         Errorf("strconv.Atoi: parsing " \o parts[2] \o ": invalid syntax")), FALSE)
                          ELSE [err |-> Nil, owner |-> repoParts[1],
                                repo |-> repoParts[Len(repoParts)],
                                number |-> n.val, called |-> FALSE]
        ELSE fail(ErrInvalidPRRef(prRef), FALSE)

parsePRRef(prRef, url) ==
    LET fail(e, c) == [err |-> e, owner |-> "", repo |-> "", number |-> 0, called |-> c]
        num == Atoi(prRef)
    IN  IF num.ok
        THEN LET cr == CurrentRepo(url, FALSE)
             IN  IF cr.err # Nil
                 THEN fail(Wrap("not in a git repository or no origin remote", cr.err), TRUE)
                 ELSE [err |-> Nil, owner |-> cr.owner, repo |-> cr.repo,
                       number |-> num.val, called |-> TRUE]
        ELSE IF HasPrefix(prRef, "http://") \/ HasPrefix(prRef, "https://")
        THEN LET u == URLParse(prRef)
                 parts == Split(Trim(u.Path, "/"), "/")
             IN  IF u.err # Nil THEN fail(Wrap("invalid URL", u.err), FALSE)
                 ELSE IF Len(parts) # 4 \/ parts[3] # "pull"
                 THEN fail(Errorf("invalid GitHub PR URL format"), FALSE)
                 ELSE LET n == Atoi(parts[4])
                      IN  IF ~n.ok
                          THEN fail(Wrap("invalid PR number in URL",
                                         Errorf("strconv.Atoi: parsing " \o parts[4] \o ": invalid syntax")), FALSE)
                          ELSE [err |-> Nil, owner |-> parts[1], repo |-> parts[2],
                                number |-> n.val, called |-> FALSE]
        ELSE IF Contains(prRef, "#")
        THEN LET parts == Split(prRef, "#")
             IN  IF Len(parts) # 2
                 THEN fail(Errorf("invalid format, expected owner/repo#number"), FALSE)
                 ELSE LET n == Atoi(parts[2])
                          repoParts == Split(parts[1], "/")
                      IN  IF ~n.ok
                          THEN fail(Wrap("invalid PR number",
                                         Errorf("strconv.Atoi: parsing " \o parts[2] \o ": invalid syntax")), FALSE)
                          ELSE IF Len(repoParts) # 2
                          THEN fail(Errorf("invalid repo format, expected owner/repo"), FALSE)
                          ELSE [err |-> Nil, owner |-> repoParts[1], repo |-> repoParts[2],
                                number |-> n.val, called |-> FALSE]
        ELSE fail(ErrInvalidPRRef(prRef), FALSE)

-----------------------------------------------------------------------------
(* The GitHub provider: `gh pr view` and `gh pr checkout`.                 *)

\* GetPR: the PRInfo that gh printed, or why there is none.
GetPR(owner, repo, number, answer, commandOK, ctxCancelled) ==
    IF commandOK THEN [err |-> Nil, pr |-> answer]
    ELSE IF ctxCancelled
    THEN [err |-> ErrPRFetchFailed(number, owner, repo, Detail(TRUE)), pr |-> answer]
    ELSE [err |-> ErrPRNotFound(number, owner, repo), pr |-> answer]

CheckoutPR(number, branch, commandOK, ctxCancelled) ==
    IF commandOK THEN Nil ELSE ErrPRCheckoutFailed(number, Detail(ctxCancelled))

-----------------------------------------------------------------------------
(* The Branch Namer, validation and the events of migrate.go.              *)

\* handler: func(Event) {} of New, which does nothing with the events it gets.
DefaultHandler == "func(Event) {}"

\* run() has not been called.
NoCLI == [pc |-> "none", i |-> 0, failed |-> FALSE, startPRCalls |-> <<>>, errors |-> <<>>,
          migrated |-> <<>>, exit |-> 0]

\* GenerateBranchName putting the author's login into the name.
GenerateBranchName_withAuthor(p) == "migrated-" \o Itoa(p.Number) \o "-" \o p.Author

GenerateBranchName(p) == "migrated-" \o Itoa(p.Number)

\* The Event that c.emit builds, with the handler c.emit calls with it.
Event(type, message, detail) ==
    [Type |-> type, Message |-> message, Detail |-> detail, Handler |-> handler]

\* c.emit: c.handler receives the event; the model records it.
emit(log, type, message, detail) == Append(log, Event(type, message, detail))

\* validatePRState comparing the state byte for byte (pr.State != "open").
validatePRState_caseSensitive(p, log) ==
    IF ~p.IsFork
    THEN [err |-> ErrPRNotFork(p.Number),
          log |-> emit(log, "error", "PR is not from a fork (it's from the same repository)", "")]
    ELSE IF p.State # "open"
    THEN [err |-> ErrPRClosed(p.Number, p.State),
          log |-> emit(log, "error", "PR is " \o p.State \o " (only open PRs can be migrated)", "")]
    ELSE [err |-> Nil, log |-> log]

\* validatePRState looking at the state before it looks at the fork flag.
validatePRState_stateFirst(p, log) ==
    IF ~EqualFold(p.State, "open")
    THEN [err |-> ErrPRClosed(p.Number, p.State),
          log |-> emit(log, "error", "PR is " \o p.State \o " (only open PRs can be migrated)", "")]
    ELSE IF ~p.IsFork
    THEN [err |-> ErrPRNotFork(p.Number),
          log |-> emit(log, "error", "PR is not from a fork (it's from the same repository)", "")]
    ELSE [err |-> Nil, log |-> log]

\* validatePRState reporting the state in lower case.
validatePRState_foldedState(p, log) ==
    IF ~p.IsFork
    THEN [err |-> ErrPRNotFork(p.Number),
          log |-> emit(log, "error", "PR is not from a fork (it's from the same repository)", "")]
    ELSE IF ~EqualFold(p.State, "open")
    THEN [err |-> ErrPRClosed(p.Number, ToLower(p.State)),
          log |-> emit(log, "error", "PR is " \o p.State \o " (only open PRs can be migrated)", "")]
    ELSE [err |-> Nil, log |-> log]

\* validatePRState: the error (Nil when valid) and the events emitted on the way.
validatePRState(p, log) ==
    IF ~p.IsFork
    THEN [err |-> ErrPRNotFork(p.Number),
          log |-> emit(log, "error", "PR is not from a fork (it's from the same repository)", "")]
    ELSE IF ~EqualFold(p.State, "open")
    THEN [err |-> ErrPRClosed(p.Number, p.State),
          log |-> emit(log, "error", "PR is " \o p.State \o " (only open PRs can be migrated)", "")]
    ELSE [err |-> Nil, log |-> log]

emitPRInfo(p, log) ==
    LET l1 == emit(log, "info", "Title: " \o p.Title, "")
        l2 == emit(l1, "info", "Author: " \o p.Author, "")
        l3 == emit(l2, "info", "Base branch: " \o p.BaseBranch, "")
    IN  IF p.IsFork THEN emit(l3, "info", "PR is from a fork", "")
        ELSE emit(l3, "info", "PR is from the same repository", "")

CreatePRCommand(p) ==
    "gh pr create --title \"" \o p.Title \o "\" --body \"Migrated from #" \o Itoa(p.Number)
        \o "\\nOriginal author: @" \o p.Author \o "\" --base " \o p.BaseBranch

\* handleDryRun announcing the push whatever opts.NoPush says.
handleDryRun_alwaysPush(p, name, o, log) ==
    LET l1 == emit(log, "command", "Would execute:", "git checkout " \o p.BaseBranch)
        l2 == emit(l1, "command", "Would execute:", "git pull origin " \o p.BaseBranch)
        l3 == emit(l2, "command", "Would execute:",
                   "gh pr checkout " \o Itoa(p.Number) \o " -b " \o name)
        l4 == emit(l3, "command", "Would execute:", "git push -u origin " \o name)
    IN  IF ~o.NoCreate
        THEN emit(emit(l4, "info", "Would suggest creating PR with:", ""),
                  "command", "", CreatePRCommand(p))
        ELSE l4

handleDryRun(p, name, o, log) ==
    LET l1 == emit(log, "command", "Would execute:", "git checkout " \o p.BaseBranch)
        l2 == emit(l1, "command", "Would execute:", "git pull origin " \o p.BaseBranch)
        l3 == emit(l2, "command", "Would execute:",
                   "gh pr checkout " \o Itoa(p.Number) \o " -b " \o name)
        l4 == IF ~o.NoPush
              THEN emit(l3, "command", "Would execute:", "git push -u origin " \o name)
              ELSE l3
    IN  IF ~o.NoCreate
        THEN emit(emit(l4, "info", "Would suggest creating PR with:", ""),
                  "command", "", CreatePRCommand(p))
        ELSE l4

emitCreatePR(p, log) ==
    emit(emit(emit(log, "info", "", ""), "info", "Create PR with:", ""),
         "command", "", CreatePRCommand(p))

-----------------------------------------------------------------------------
(* The inputs and the environment of the model.                            *)

NoPR == [Number |-> 0, Title |-> "", Author |-> "", BaseBranch |-> "", State |-> "", IsFork |-> FALSE]
NoTarget == [owner |-> "", repo |-> "", number |-> 0]

\* The references a caller passes.
References == {"1", "acme/widgets#2", "https://github.com/acme/widgets/pull/1", "pr-1"}

\* The references a caller passes in a batch.
BatchReferences == {"1", "acme/widgets#2", "pr-1"}

\* What `git remote get-url origin` can print.
RemoteURLs == {"git@github.com:acme/widgets.git", NoRemote}

PRStates == {"open", "OPEN", "Open", "closed", "CLOSED", "Closed", "MERGED", ""}

\* What `gh pr view` can answer.
PRInfos ==
    [Number : 1..MaxPRNumber, Title : {"Fix bug #9"}, Author : {"dev"},
     BaseBranch : {"main"}, State : PRStates, IsFork : BOOLEAN]

CustomBranch == "custom"

OptionsSet == [DryRun : BOOLEAN, BranchName : {"", CustomBranch}, NoPush : BOOLEAN, NoCreate : BOOLEAN]

\* The branch the user is on and the branches that exist before the tool runs.
StartBranch == "feature"
EarlierBranches == {"migrated-1", CustomBranch}

\* A command under a cancelled context fails; otherwise it may do either.
CommandOutcomes(ctxCancelled) == IF ctxCancelled THEN {FALSE} ELSE BOOLEAN

\* A collaborator call: the run it belongs to, the method, its arguments, the
\* context it was given, the error it returned and the value it returned.
Call(op, args, ctx, err, val) ==
    [run |-> idx, op |-> op, args |-> args, ctx |-> ctx, err |-> err, val |-> val]

\* What a call returns besides its error is a record: a PRInfo, [exists |-> b]
\* of HasBranch, [owner, repo] of CurrentRepo, NoValue of the other methods.
NoValue == [none |-> TRUE]
Running == [kind |-> "running"]

Repository == [current |-> current, locals |-> locals, origin |-> origin]

prRef == prRefs[idx]

-----------------------------------------------------------------------------
(* Init: a migrator on which nothing was called yet, in a repository.      *)

Init ==
    /\ top = "idle"
    /\ prRefs = <<>>
    /\ opts = [DryRun |-> FALSE, BranchName |-> "", NoPush |-> FALSE, NoCreate |-> FALSE]
    /\ idx = 1
    /\ pc = "none"
    /\ target = NoTarget
    /\ pr = NoPR
    /\ branchName = ""
    /\ titleSlug = ""
    /\ ret = Nil
    /\ errors = <<>>
    /\ successCount = 0
    /\ batchRet = Nil
    /\ calls = <<>>
    /\ events = <<>>
    /\ current = StartBranch
    /\ \E earlier \in SUBSET EarlierBranches : locals = {"main", StartBranch} \cup earlier
    /\ origin = {"main"}
    /\ remoteURL \in RemoteURLs
    /\ cancelled = FALSE
    /\ before = [current |-> current, locals |-> locals, origin |-> origin]
    /\ runs = <<>>
    /\ handler = DefaultHandler
    /\ cli = NoCLI

-----------------------------------------------------------------------------
(* The entry points.                                                       *)

\* A caller invokes MigratePR(ctx, ref, o).
MigratePR_call(ref, o) ==
    /\ top = "idle"
    /\ top' = "MigratePR"
    /\ prRefs' = <<ref>>
    /\ opts' = o
    /\ idx' = 1
    /\ pc' = "Start"
    /\ target' = NoTarget
    /\ pr' = NoPR
    /\ branchName' = ""
    /\ before' = Repository
    /\ runs' = Append(runs, [idx |-> 1, ref |-> ref, ret |-> Running])
    /\ UNCHANGED <<handler, cli, titleSlug, ret, errors, successCount, batchRet, calls, events, current, locals,
                   origin, remoteURL, cancelled>>

\* A caller invokes MigratePRs(ctx, refs, o): errors is nil and successCount 0.
MigratePRs_call(refs, o) ==
    /\ top = "idle"
    /\ top' = "MigratePRs"
    /\ prRefs' = refs
    /\ opts' = o
    /\ idx' = 1
    /\ errors' = <<>>
    /\ successCount' = 0
    /\ UNCHANGED <<handler, cli, titleSlug, pc, target, pr, branchName, ret, batchRet, calls, events, current,
                   locals, origin, remoteURL, cancelled, before,
                   runs>>

\* The caller cancels the context it passed.
Cancel ==
    /\ top \in {"MigratePR", "MigratePRs"}
    /\ ~cancelled
    /\ cancelled' = TRUE
    /\ UNCHANGED <<handler, cli, titleSlug, top, prRefs, opts, idx, pc, target, pr, branchName, ret, errors,
                   successCount, batchRet, calls, events, current, locals, origin,
                   remoteURL, before,
                   runs>>

-----------------------------------------------------------------------------
(* MigratePR, one action per collaborator call and its outcome.            *)

\* return err
Fail(err) == ret' = err /\ pc' = "Failed"

\* parsePRRef returning the current repository's name as the owner and its
\* owner as the name.
MigratePR_parsePRRef_swapped ==
    /\ pc = "Start"
    /\ \E r \in {parsePRRef(prRef, remoteURL)} :
           /\ calls' = IF r.called
                       THEN Append(calls, Call("CurrentRepo", <<>>, "background",
                                               IF r.err = Nil THEN Nil ELSE r.err.inner,
                                               [owner |-> r.owner, repo |-> r.repo]))
                       ELSE calls
           /\ IF r.err # Nil
              THEN Fail(r.err) /\ UNCHANGED target
              ELSE /\ target' = [owner |-> r.repo, repo |-> r.owner, number |-> r.number]
                   /\ pc' = "ReferenceResolved"
                   /\ UNCHANGED ret
    /\ UNCHANGED <<handler, cli, titleSlug, top, prRefs, opts, idx, pr, branchName, errors, successCount, batchRet,
                   events, current, locals, origin, remoteURL, cancelled, before,
                   runs>>

\* MigratePR announcing the migration before the reference is resolved.
MigratePR_parsePRRef_announces ==
    /\ pc = "Start"
    /\ events' = emit(events, "info", "Migrating PR " \o prRef, "")
    /\ \E r \in {parsePRRef(prRef, remoteURL)} :
           /\ calls' = IF r.called
                       THEN Append(calls, Call("CurrentRepo", <<>>, "background",
                                               IF r.err = Nil THEN Nil ELSE r.err.inner,
                                               [owner |-> r.owner, repo |-> r.repo]))
                       ELSE calls
           /\ IF r.err # Nil
              THEN Fail(r.err) /\ UNCHANGED target
              ELSE /\ target' = [owner |-> r.owner, repo |-> r.repo, number |-> r.number]
                   /\ pc' = "ReferenceResolved"
                   /\ UNCHANGED ret
    /\ UNCHANGED <<handler, cli, titleSlug, top, prRefs, opts, idx, pr, branchName, errors, successCount, batchRet,
                   current, locals, origin, remoteURL, cancelled, before,
                   runs>>

\* parsePRRef asking the Git provider for the current repository whatever the
\* form of the reference.
MigratePR_parsePRRef_repoFirst ==
    /\ pc = "Start"
    /\ \E r \in {parsePRRef(prRef, remoteURL)}, cr \in {CurrentRepo(remoteURL, FALSE)} :
           /\ calls' = Append(calls, Call("CurrentRepo", <<>>, "background", cr.err,
                                          [owner |-> cr.owner, repo |-> cr.repo]))
           /\ IF r.err # Nil
              THEN Fail(r.err) /\ UNCHANGED target
              ELSE /\ target' = [owner |-> r.owner, repo |-> r.repo, number |-> r.number]
                   /\ pc' = "ReferenceResolved"
                   /\ UNCHANGED ret
    /\ UNCHANGED <<handler, cli, titleSlug, top, prRefs, opts, idx, pr, branchName, errors, successCount, batchRet,
                   events, current, locals, origin, remoteURL, cancelled, before,
                   runs>>

\* owner, repo, number, err := c.parsePRRef(prRef)
MigratePR_parsePRRef ==
    /\ pc = "Start"
    /\ \E r \in {parsePRRef(prRef, remoteURL)} :
           /\ calls' = IF r.called
                       THEN Append(calls, Call("CurrentRepo", <<>>, "background",
                                               IF r.err = Nil THEN Nil ELSE r.err.inner,
                                               [owner |-> r.owner, repo |-> r.repo]))
                       ELSE calls
           /\ IF r.err # Nil
              THEN Fail(r.err) /\ UNCHANGED target
              ELSE /\ target' = [owner |-> r.owner, repo |-> r.repo, number |-> r.number]
                   /\ pc' = "ReferenceResolved"
                   /\ UNCHANGED ret
    /\ UNCHANGED <<handler, cli, titleSlug, top, prRefs, opts, idx, pr, branchName, errors, successCount, batchRet,
                   events, current, locals, origin, remoteURL, cancelled, before,
                   runs>>

\* MigratePR going from the fetch straight to the branch name, validatePRState left out.
MigratePR_GetPR_unvalidated(answers) ==
    /\ pc = "ReferenceResolved"
    /\ events' = emit(emit(events, "info",
                           "Migrating PR #" \o Itoa(target.number) \o " from "
                               \o target.owner \o "/" \o target.repo, ""),
                      "info", "Fetching PR information...", "")
    /\ \E answer \in answers, commandOK \in CommandOutcomes(cancelled) :
          LET r == GetPR(target.owner, target.repo, target.number, answer, commandOK, cancelled)
          IN  /\ calls' = Append(calls, Call("GetPR",
                                 <<target.owner, target.repo, target.number>>, "ctx",
                                 r.err, IF r.err # Nil THEN NoValue ELSE r.pr))
              /\ IF r.err # Nil
                 THEN Fail(r.err) /\ UNCHANGED pr
                 ELSE pr' = r.pr /\ pc' = "Validated" /\ UNCHANGED ret
    /\ UNCHANGED <<handler, cli, titleSlug, top, prRefs, opts, idx, target, branchName, errors, successCount,
                   batchRet, current, locals, origin, remoteURL, cancelled, before,
                   runs>>

\* pr, err := c.github.GetPR(ctx, owner, repo, number)
MigratePR_GetPR(answers) ==
    /\ pc = "ReferenceResolved"
    /\ events' = emit(emit(events, "info",
                           "Migrating PR #" \o Itoa(target.number) \o " from "
                               \o target.owner \o "/" \o target.repo, ""),
                      "info", "Fetching PR information...", "")
    /\ \E answer \in answers, commandOK \in CommandOutcomes(cancelled) :
          LET r == GetPR(target.owner, target.repo, target.number, answer, commandOK, cancelled)
          IN  /\ calls' = Append(calls, Call("GetPR",
                                 <<target.owner, target.repo, target.number>>, "ctx",
                                 r.err, IF r.err # Nil THEN NoValue ELSE r.pr))
              /\ IF r.err # Nil
                 THEN Fail(r.err) /\ UNCHANGED pr
                 ELSE pr' = r.pr /\ pc' = "PRFetched" /\ UNCHANGED ret
    /\ UNCHANGED <<handler, cli, titleSlug, top, prRefs, opts, idx, target, branchName, errors, successCount,
                   batchRet, current, locals, origin, remoteURL, cancelled, before,
                   runs>>

\* if err := c.validatePRState(pr); err != nil { return err }
MigratePR_validatePRState ==
    /\ pc = "PRFetched"
    /\ LET v == validatePRState(pr, events)
       IN  /\ events' = v.log
           /\ IF v.err # Nil THEN Fail(v.err) ELSE pc' = "Validated" /\ UNCHANGED ret
    /\ UNCHANGED <<handler, cli, titleSlug, top, prRefs, opts, idx, target, pr, branchName, errors, successCount,
                   batchRet, calls, current, locals, origin, remoteURL, cancelled, before,
                   runs>>

\* MigratePR asking HasBranch and going on whatever the answer.
MigratePR_HasBranch_ignored ==
    /\ pc = "Validated"
    /\ LET name == IF opts.BranchName = "" THEN GenerateBranchName(pr) ELSE opts.BranchName
       IN  /\ branchName' = name
           /\ events' = emit(emitPRInfo(pr, events), "info", "Branch: " \o name, "")
           /\ \E commandOK \in CommandOutcomes(cancelled) :
                 calls' = Append(calls, Call("HasBranch", <<name>>, "ctx", Nil,
                                             [exists |-> HasBranch(locals, name, commandOK)]))
           /\ pc' = "BranchPlanned"
    /\ UNCHANGED <<handler, cli, titleSlug, top, prRefs, opts, idx, target, pr, ret, errors, successCount, batchRet,
                   current, locals, origin, remoteURL, cancelled, before, runs>>

\* MigratePR checking out the base branch before it asks HasBranch.
MigratePR_HasBranch_afterCheckout ==
    /\ pc = "Validated"
    /\ LET name == IF opts.BranchName = "" THEN GenerateBranchName(pr) ELSE opts.BranchName
       IN  /\ branchName' = name
           /\ events' = emit(emitPRInfo(pr, events), "info", "Branch: " \o name, "")
           /\ current' = pr.BaseBranch
           /\ \E commandOK \in CommandOutcomes(cancelled) :
                 LET exists == HasBranch(locals, name, commandOK)
                 IN  /\ calls' = Append(Append(calls,
                                     Call("Checkout", <<pr.BaseBranch>>, "ctx", Nil, NoValue)),
                                     Call("HasBranch", <<name>>, "ctx", Nil, [exists |-> exists]))
                     /\ IF exists
                        THEN Fail(ErrBranchExists(name))
                        ELSE pc' = "BranchPlanned" /\ UNCHANGED ret
    /\ UNCHANGED <<handler, cli, titleSlug, top, prRefs, opts, idx, target, pr, errors, successCount, batchRet,
                   locals, origin, remoteURL, cancelled, before, runs>>

\* The branch name is chosen and c.git.HasBranch(ctx, branchName) is asked.
MigratePR_HasBranch ==
    /\ pc = "Validated"
    /\ LET name == IF opts.BranchName = "" THEN GenerateBranchName(pr) ELSE opts.BranchName
       IN  /\ branchName' = name
           /\ events' = emit(emitPRInfo(pr, events), "info", "Branch: " \o name, "")
           /\ \E commandOK \in CommandOutcomes(cancelled) :
                 LET exists == HasBranch(locals, name, commandOK)
                 IN  /\ calls' = Append(calls, Call("HasBranch", <<name>>, "ctx", Nil, [exists |-> exists]))
                     /\ IF exists
                        THEN Fail(ErrBranchExists(name))
                        ELSE pc' = "BranchPlanned" /\ UNCHANGED ret
    /\ UNCHANGED <<handler, cli, titleSlug, top, prRefs, opts, idx, target, pr, errors, successCount, batchRet,
                   current, locals, origin, remoteURL, cancelled, before,
                   runs>>

\* if opts.DryRun { c.handleDryRun(pr, branchName, opts); ... }
MigratePR_handleDryRun ==
    /\ pc = "BranchPlanned"
    /\ opts.DryRun
    /\ events' = handleDryRun(pr, branchName, opts, events)
    /\ pc' = "DryRunReported"
    /\ UNCHANGED <<handler, cli, titleSlug, top, prRefs, opts, idx, target, pr, branchName, ret, errors,
                   successCount, batchRet, calls, current, locals, origin, remoteURL,
                   cancelled, before,
                   runs>>

\* ... return nil
MigratePR_dryRunReturn ==
    /\ pc = "DryRunReported"
    /\ ret' = Nil
    /\ pc' = "Done"
    /\ UNCHANGED <<handler, cli, titleSlug, top, prRefs, opts, idx, target, pr, branchName, errors, successCount,
                   batchRet, calls, events, current, locals, origin, remoteURL, cancelled,
                   before,
                   runs>>

\* MigratePR checking out the base branch without having looked at opts.DryRun.
MigratePR_Checkout_inDryRun ==
    /\ pc = "BranchPlanned"
    /\ events' = emit(events, "info", "Switching to " \o pr.BaseBranch \o " branch...", "")
    /\ \E commandOK \in CommandOutcomes(cancelled) :
          LET err == Checkout(pr.BaseBranch, commandOK, cancelled)
          IN  /\ calls' = Append(calls, Call("Checkout", <<pr.BaseBranch>>, "ctx", err, NoValue))
              /\ IF err # Nil
                 THEN Fail(err) /\ UNCHANGED <<current, locals>>
                 ELSE /\ current' = pr.BaseBranch
                      /\ locals' = locals \cup {pr.BaseBranch}
                      /\ pc' = "BaseCheckedOut"
                      /\ UNCHANGED ret
    /\ UNCHANGED <<handler, cli, titleSlug, top, prRefs, opts, idx, target, pr, branchName, errors, successCount,
                   batchRet, origin, remoteURL, cancelled, before, runs>>

\* checkoutAndPullBase, first half: c.git.Checkout(ctx, pr.BaseBranch)
MigratePR_Checkout ==
    /\ pc = "BranchPlanned"
    /\ ~opts.DryRun
    /\ events' = emit(events, "info", "Switching to " \o pr.BaseBranch \o " branch...", "")
    /\ \E commandOK \in CommandOutcomes(cancelled) :
          LET err == Checkout(pr.BaseBranch, commandOK, cancelled)
          IN  /\ calls' = Append(calls, Call("Checkout", <<pr.BaseBranch>>, "ctx", err, NoValue))
              /\ IF err # Nil
                 THEN Fail(err) /\ UNCHANGED <<current, locals>>
                 ELSE /\ current' = pr.BaseBranch
                      /\ locals' = locals \cup {pr.BaseBranch}
                      /\ pc' = "BaseCheckedOut"
                      /\ UNCHANGED ret
    /\ UNCHANGED <<handler, cli, titleSlug, top, prRefs, opts, idx, target, pr, branchName, errors, successCount,
                   batchRet, origin, remoteURL, cancelled, before,
                   runs>>

\* MigratePR pulling the base branch and going on when the pull failed.
MigratePR_Pull_errorIgnored ==
    /\ pc = "BaseCheckedOut"
    /\ events' = emit(events, "info", "Pulling latest changes...", "")
    /\ \E commandOK \in CommandOutcomes(cancelled) :
          LET err == Pull("origin", pr.BaseBranch, commandOK, cancelled)
          IN  /\ calls' = Append(calls, Call("Pull", <<"origin", pr.BaseBranch>>, "ctx", err, NoValue))
              /\ pc' = "BasePulled" /\ UNCHANGED ret
    /\ UNCHANGED <<handler, cli, titleSlug, top, prRefs, opts, idx, target, pr, branchName, errors, successCount,
                   batchRet, current, locals, origin, remoteURL, cancelled, before,
                   runs>>

\* checkoutAndPullBase, second half: c.git.Pull(ctx, "origin", pr.BaseBranch)
MigratePR_Pull ==
    /\ pc = "BaseCheckedOut"
    /\ events' = emit(events, "info", "Pulling latest changes...", "")
    /\ \E commandOK \in CommandOutcomes(cancelled) :
          LET err == Pull("origin", pr.BaseBranch, commandOK, cancelled)
          IN  /\ calls' = Append(calls, Call("Pull", <<"origin", pr.BaseBranch>>, "ctx", err, NoValue))
              /\ IF err # Nil THEN Fail(err) ELSE pc' = "BasePulled" /\ UNCHANGED ret
    /\ UNCHANGED <<handler, cli, titleSlug, top, prRefs, opts, idx, target, pr, branchName, errors, successCount,
                   batchRet, current, locals, origin, remoteURL, cancelled, before,
                   runs>>

\* MigratePR returning the CheckoutPR error wrapped in a message of its own.
MigratePR_CheckoutPR_wrapped ==
    /\ pc = "BasePulled"
    /\ events' = emit(events, "info", "Checking out PR #" \o Itoa(pr.Number) \o "...", "")
    /\ \E commandOK \in CommandOutcomes(cancelled) :
          LET err == CheckoutPR(pr.Number, branchName, commandOK, cancelled)
          IN  /\ calls' = Append(calls, Call("CheckoutPR",
                                 <<target.owner, target.repo, pr.Number, branchName>>, "ctx",
                                 err, NoValue))
              /\ IF err # Nil
                 THEN Fail(Wrap("failed to checkout PR", err)) /\ UNCHANGED <<current, locals>>
                 ELSE /\ current' = branchName
                      /\ locals' = locals \cup {branchName}
                      /\ pc' = "PRCheckedOut"
                      /\ UNCHANGED ret
    /\ UNCHANGED <<handler, cli, titleSlug, top, prRefs, opts, idx, target, pr, branchName, errors, successCount,
                   batchRet, origin, remoteURL, cancelled, before,
                   runs>>

\* MigratePR reporting the migration as done once the PR is checked out,
\* before the push.
MigratePR_CheckoutPR_reportsSuccess ==
    /\ pc = "BasePulled"
    /\ \E commandOK \in CommandOutcomes(cancelled) :
          LET err == CheckoutPR(pr.Number, branchName, commandOK, cancelled)
              log == emit(events, "info", "Checking out PR #" \o Itoa(pr.Number) \o "...", "")
          IN  /\ calls' = Append(calls, Call("CheckoutPR",
                                 <<target.owner, target.repo, pr.Number, branchName>>, "ctx",
                                 err, NoValue))
              /\ IF err # Nil
                 THEN Fail(err) /\ events' = log /\ UNCHANGED <<current, locals>>
                 ELSE /\ current' = branchName
                      /\ locals' = locals \cup {branchName}
                      /\ events' = emit(log, "success",
                                        "Successfully migrated PR #" \o Itoa(pr.Number), "")
                      /\ pc' = "PRCheckedOut"
                      /\ UNCHANGED ret
    /\ UNCHANGED <<handler, cli, titleSlug, top, prRefs, opts, idx, target, pr, branchName, errors,
                   successCount, batchRet, origin, remoteURL, cancelled, before, runs>>

\* MigratePR checking out the PR under the generated name whatever
\* opts.BranchName says.
MigratePR_CheckoutPR_generatedName ==
    /\ pc = "BasePulled"
    /\ events' = emit(events, "info", "Checking out PR #" \o Itoa(pr.Number) \o "...", "")
    /\ \E commandOK \in CommandOutcomes(cancelled) :
          LET err == CheckoutPR(pr.Number, GenerateBranchName(pr), commandOK, cancelled)
          IN  /\ calls' = Append(calls, Call("CheckoutPR",
                                 <<target.owner, target.repo, pr.Number, GenerateBranchName(pr)>>,
                                 "ctx", err, NoValue))
              /\ IF err # Nil
                 THEN Fail(err) /\ UNCHANGED <<current, locals>>
                 ELSE /\ current' = GenerateBranchName(pr)
                      /\ locals' = locals \cup {GenerateBranchName(pr)}
                      /\ pc' = "PRCheckedOut"
                      /\ UNCHANGED ret
    /\ UNCHANGED <<handler, cli, titleSlug, top, prRefs, opts, idx, target, pr, branchName, errors,
                   successCount, batchRet, origin, remoteURL, cancelled, before, runs>>

\* c.github.CheckoutPR(ctx, owner, repo, pr.Number, branchName)
MigratePR_CheckoutPR ==
    /\ pc = "BasePulled"
    /\ events' = emit(events, "info", "Checking out PR #" \o Itoa(pr.Number) \o "...", "")
    /\ \E commandOK \in CommandOutcomes(cancelled) :
          LET err == CheckoutPR(pr.Number, branchName, commandOK, cancelled)
          IN  /\ calls' = Append(calls, Call("CheckoutPR",
                                 <<target.owner, target.repo, pr.Number, branchName>>, "ctx",
                                 err, NoValue))
              /\ IF err # Nil
                 THEN Fail(err) /\ UNCHANGED <<current, locals>>
                 ELSE /\ current' = branchName
                      /\ locals' = locals \cup {branchName}
                      /\ pc' = "PRCheckedOut"
                      /\ UNCHANGED ret
    /\ UNCHANGED <<handler, cli, titleSlug, top, prRefs, opts, idx, target, pr, branchName, errors, successCount,
                   batchRet, origin, remoteURL, cancelled, before,
                   runs>>

\* MigratePR undoing its work when the push fails: back to the base branch,
\* the new local branch deleted.
MigratePR_pushAndEmit_rollback ==
    /\ pc = "PRCheckedOut"
    /\ IF opts.NoPush
       THEN pc' = "Executed" /\ UNCHANGED <<ret, calls, events, origin, current, locals>>
       ELSE \E commandOK \in CommandOutcomes(cancelled) :
               LET err == Push("origin", branchName, commandOK, cancelled)
                   log == emit(events, "info", "Pushing to origin...", "")
               IN  IF err # Nil
                   THEN /\ Fail(err)
                        /\ events' = log
                        /\ calls' = Append(Append(calls,
                                        Call("Push", <<"origin", branchName>>, "ctx", err, NoValue)),
                                        Call("DeleteBranch", <<branchName>>, "ctx", Nil, NoValue))
                        /\ current' = pr.BaseBranch
                        /\ locals' = locals \ {branchName}
                        /\ UNCHANGED origin
                   ELSE /\ calls' = Append(calls,
                                        Call("Push", <<"origin", branchName>>, "ctx", err, NoValue))
                        /\ origin' = origin \cup {branchName}
                        /\ events' = emit(log, "success", "Pushed to origin", "")
                        /\ pc' = "Executed"
                        /\ UNCHANGED <<ret, current, locals>>
    /\ UNCHANGED <<handler, cli, titleSlug, top, prRefs, opts, idx, target, pr, branchName, errors, successCount,
                   batchRet, remoteURL, cancelled, before, runs>>

\* MigratePR pushing without having looked at opts.NoPush.
MigratePR_pushAndEmit_always ==
    /\ pc = "PRCheckedOut"
    /\ \E commandOK \in CommandOutcomes(cancelled) :
          LET err == Push("origin", branchName, commandOK, cancelled)
              log == emit(events, "info", "Pushing to origin...", "")
          IN  /\ calls' = Append(calls, Call("Push", <<"origin", branchName>>, "ctx", err, NoValue))
              /\ IF err # Nil
                 THEN Fail(err) /\ events' = log /\ UNCHANGED origin
                 ELSE /\ origin' = origin \cup {branchName}
                      /\ events' = emit(log, "success", "Pushed to origin", "")
                      /\ pc' = "Executed"
                      /\ UNCHANGED ret
    /\ UNCHANGED <<handler, cli, titleSlug, top, prRefs, opts, idx, target, pr, branchName, errors, successCount,
                   batchRet, current, locals, remoteURL, cancelled, before,
                   runs>>

\* MigratePR pushing only when a handler other than the no-op one listens.
MigratePR_pushAndEmit_whenObserved ==
    /\ pc = "PRCheckedOut"
    /\ IF opts.NoPush \/ handler = DefaultHandler
       THEN pc' = "Executed" /\ UNCHANGED <<ret, calls, events, origin>>
       ELSE \E commandOK \in CommandOutcomes(cancelled) :
               LET err == Push("origin", branchName, commandOK, cancelled)
                   log == emit(events, "info", "Pushing to origin...", "")
               IN  /\ calls' = Append(calls, Call("Push", <<"origin", branchName>>, "ctx", err, NoValue))
                   /\ IF err # Nil
                      THEN Fail(err) /\ events' = log /\ UNCHANGED origin
                      ELSE /\ origin' = origin \cup {branchName}
                           /\ events' = emit(log, "success", "Pushed to origin", "")
                           /\ pc' = "Executed"
                           /\ UNCHANGED ret
    /\ UNCHANGED <<handler, cli, titleSlug, top, prRefs, opts, idx, target, pr, branchName, errors, successCount,
                   batchRet, current, locals, remoteURL, cancelled, before,
                   runs>>

\* if !opts.NoPush { c.pushAndEmit(ctx, branchName) }
MigratePR_pushAndEmit ==
    /\ pc = "PRCheckedOut"
    /\ IF opts.NoPush
       THEN pc' = "Executed" /\ UNCHANGED <<ret, calls, events, origin>>
       ELSE \E commandOK \in CommandOutcomes(cancelled) :
               LET err == Push("origin", branchName, commandOK, cancelled)
                   log == emit(events, "info", "Pushing to origin...", "")
               IN  /\ calls' = Append(calls, Call("Push", <<"origin", branchName>>, "ctx", err, NoValue))
                   /\ IF err # Nil
                      THEN Fail(err) /\ events' = log /\ UNCHANGED origin
                      ELSE /\ origin' = origin \cup {branchName}
                           /\ events' = emit(log, "success", "Pushed to origin", "")
                           /\ pc' = "Executed"
                           /\ UNCHANGED ret
    /\ UNCHANGED <<handler, cli, titleSlug, top, prRefs, opts, idx, target, pr, branchName, errors, successCount,
                   batchRet, current, locals, remoteURL, cancelled, before,
                   runs>>

\* MigratePR suggesting the PR creation although nothing was pushed.
MigratePR_success_ignoresNoPush ==
    /\ pc = "Executed"
    /\ LET log == emit(events, "success",
                       "Successfully migrated PR #" \o Itoa(pr.Number), "")
       IN  events' = IF ~opts.NoCreate THEN emitCreatePR(pr, log) ELSE log
    /\ ret' = Nil
    /\ pc' = "Done"
    /\ UNCHANGED <<handler, cli, titleSlug, top, prRefs, opts, idx, target, pr, branchName, errors, successCount,
                   batchRet, calls, current, locals, origin, remoteURL, cancelled, before,
                   runs>>

\* The Success event, the PR-creation suggestion, return nil.
MigratePR_success ==
    /\ pc = "Executed"
    /\ LET log == emit(events, "success",
                       "Successfully migrated PR #" \o Itoa(pr.Number), "")
       IN  events' = IF ~opts.NoCreate /\ ~opts.NoPush THEN emitCreatePR(pr, log) ELSE log
    /\ ret' = Nil
    /\ pc' = "Done"
    /\ UNCHANGED <<handler, cli, titleSlug, top, prRefs, opts, idx, target, pr, branchName, errors, successCount,
                   batchRet, calls, current, locals, origin, remoteURL, cancelled, before,
                   runs>>

\* MigratePR was the entry point and has returned to its caller.
MigratePR_return ==
    /\ top = "MigratePR"
    /\ pc \in {"Done", "Failed"}
    /\ top' = "returned"
    /\ runs' = [runs EXCEPT ![Len(runs)].ret = ret]
    /\ UNCHANGED <<handler, cli, titleSlug, prRefs, opts, idx, pc, target, pr, branchName, ret, errors, successCount,
                   batchRet, calls, events, current, locals, origin, remoteURL, cancelled,
                   before>>

-----------------------------------------------------------------------------
(* MigratePRs: the range loop over prRefs.                                 *)

\* for _, prRef := range prRefs { c.emit(EventInfo, "", ""); err := c.MigratePR(...)
MigratePRs_next ==
    /\ top = "MigratePRs"
    /\ pc = "none"
    /\ idx <= Len(prRefs)
    /\ events' = emit(events, "info", "", "")
    /\ pc' = "Start"
    /\ target' = NoTarget
    /\ pr' = NoPR
    /\ branchName' = ""
    /\ before' = Repository
    /\ runs' = Append(runs, [idx |-> idx, ref |-> prRef, ret |-> Running])
    /\ UNCHANGED <<handler, cli, titleSlug, top, prRefs, opts, idx, ret, errors, successCount, batchRet, calls,
                   current, locals, origin, remoteURL, cancelled>>

\* MigratePRs trying a failed reference again.
MigratePRs_record_retry ==
    /\ top = "MigratePRs"
    /\ pc \in {"Done", "Failed"}
    /\ IF ret # Nil
       THEN /\ errors' = Append(errors, "PR " \o prRef \o ": " \o ErrorText(ret))
            /\ events' = emit(events, "error", "Failed to migrate " \o prRef, ErrorText(ret))
            /\ idx' = idx
            /\ UNCHANGED successCount
       ELSE /\ successCount' = successCount + 1
            /\ idx' = idx + 1
            /\ UNCHANGED <<errors, events>>
    /\ pc' = "none"
    /\ runs' = [runs EXCEPT ![Len(runs)].ret = ret]
    /\ UNCHANGED <<handler, cli, titleSlug, top, prRefs, opts, target, pr, branchName, ret, batchRet, calls,
                   current, locals, origin, remoteURL, cancelled, before>>

\* MigratePRs undoing, when a reference fails, what the references before it
\* did: their branches deleted locally and on origin.
MigratePRs_record_rollbackAll ==
    /\ top = "MigratePRs"
    /\ pc \in {"Done", "Failed"}
    /\ IF ret # Nil
       THEN LET created == {calls[i].args[4] :
                               i \in {j \in DOMAIN calls : calls[j].op = "CheckoutPR"
                                                            /\ calls[j].err = Nil}}
            IN  /\ errors' = Append(errors, "PR " \o prRef \o ": " \o ErrorText(ret))
                /\ events' = emit(events, "error", "Failed to migrate " \o prRef, ErrorText(ret))
                /\ locals' = locals \ created
                /\ origin' = origin \ created
                /\ current' = IF current \in created THEN "main" ELSE current
                /\ UNCHANGED successCount
       ELSE /\ successCount' = successCount + 1
            /\ UNCHANGED <<errors, events, current, locals, origin>>
    /\ idx' = idx + 1
    /\ pc' = "none"
    /\ runs' = [runs EXCEPT ![Len(runs)].ret = ret]
    /\ UNCHANGED <<handler, cli, titleSlug, top, prRefs, opts, target, pr, branchName, ret, batchRet, calls,
                   remoteURL, cancelled, before>>

\* MigratePRs counting every reference it has tried as a success.
MigratePRs_record_countsAll ==
    /\ top = "MigratePRs"
    /\ pc \in {"Done", "Failed"}
    /\ IF ret # Nil
       THEN /\ errors' = Append(errors, "PR " \o prRef \o ": " \o ErrorText(ret))
            /\ events' = emit(events, "error", "Failed to migrate " \o prRef, ErrorText(ret))
       ELSE UNCHANGED <<errors, events>>
    /\ successCount' = successCount + 1
    /\ idx' = idx + 1
    /\ pc' = "none"
    /\ runs' = [runs EXCEPT ![Len(runs)].ret = ret]
    /\ UNCHANGED <<handler, cli, titleSlug, top, prRefs, opts, target, pr, branchName, ret, batchRet, calls,
                   current, locals, origin, remoteURL, cancelled, before>>

\* The body of the loop after MigratePR returned.
MigratePRs_record ==
    /\ top = "MigratePRs"
    /\ pc \in {"Done", "Failed"}
    /\ IF ret # Nil
       THEN /\ errors' = Append(errors, "PR " \o prRef \o ": " \o ErrorText(ret))
            /\ events' = emit(events, "error", "Failed to migrate " \o prRef, ErrorText(ret))
            /\ UNCHANGED successCount
       ELSE /\ successCount' = successCount + 1
            /\ UNCHANGED <<errors, events>>
    /\ idx' = idx + 1
    /\ pc' = "none"
    /\ runs' = [runs EXCEPT ![Len(runs)].ret = ret]
    /\ UNCHANGED <<handler, cli, titleSlug, top, prRefs, opts, target, pr, branchName, ret, batchRet, calls,
                   current, locals, origin, remoteURL, cancelled, before>>

\* MigratePRs returning as soon as one reference has failed.
MigratePRs_return_early ==
    /\ top = "MigratePRs"
    /\ pc = "none"
    /\ idx > Len(prRefs) \/ Len(errors) > 0
    /\ IF Len(errors) > 0
       THEN /\ events' = emit(emit(events, "info", "", ""), "info",
                              "Migrated " \o Itoa(successCount) \o "/" \o Itoa(Len(prRefs))
                                  \o " PRs successfully", "")
            /\ batchRet' = Errorf("failed to migrate some PRs:\n" \o Join(errors, "\n"))
       ELSE /\ events' = emit(emit(events, "info", "", ""), "success",
                              "Successfully migrated all " \o Itoa(Len(prRefs)) \o " PRs", "")
            /\ batchRet' = Nil
    /\ top' = "returned"
    /\ UNCHANGED <<handler, cli, titleSlug, prRefs, opts, idx, pc, target, pr, branchName, ret, errors, successCount,
                   calls, current, locals, origin, remoteURL, cancelled, before,
                   runs>>

\* MigratePRs reporting only the first failure in the error it returns.
MigratePRs_return_firstOnly ==
    /\ top = "MigratePRs"
    /\ pc = "none"
    /\ idx > Len(prRefs)
    /\ IF Len(errors) > 0
       THEN /\ events' = emit(emit(events, "info", "", ""), "info",
                              "Migrated " \o Itoa(successCount) \o "/" \o Itoa(Len(prRefs))
                                  \o " PRs successfully", "")
            /\ batchRet' = Errorf("failed to migrate some PRs:\n" \o errors[1])
       ELSE /\ events' = emit(emit(events, "info", "", ""), "success",
                              "Successfully migrated all " \o Itoa(Len(prRefs)) \o " PRs", "")
            /\ batchRet' = Nil
    /\ top' = "returned"
    /\ UNCHANGED <<handler, cli, titleSlug, prRefs, opts, idx, pc, target, pr, branchName, ret, errors, successCount,
                   calls, current, locals, origin, remoteURL, cancelled, before,
                   runs>>

\* After the loop: the summary event and the aggregate error.
MigratePRs_return ==
    /\ top = "MigratePRs"
    /\ pc = "none"
    /\ idx > Len(prRefs)
    /\ IF Len(errors) > 0
       THEN /\ events' = emit(emit(events, "info", "", ""), "info",
                              "Migrated " \o Itoa(successCount) \o "/" \o Itoa(Len(prRefs))
                                  \o " PRs successfully", "")
            /\ batchRet' = Errorf("failed to migrate some PRs:\n" \o Join(errors, "\n"))
       ELSE /\ events' = emit(emit(events, "info", "", ""), "success",
                              "Successfully migrated all " \o Itoa(Len(prRefs)) \o " PRs", "")
            /\ batchRet' = Nil
    /\ top' = "returned"
    /\ UNCHANGED <<handler, cli, titleSlug, prRefs, opts, idx, pc, target, pr, branchName, ret, errors, successCount,
                   calls, current, locals, origin, remoteURL, cancelled, before,
                   runs>>

-----------------------------------------------------------------------------
(* Specifications.                                                         *)

MigratePRSteps(answers) ==
    \/ MigratePR_parsePRRef
    \/ MigratePR_GetPR(answers)
    \/ MigratePR_validatePRState
    \/ MigratePR_HasBranch
    \/ MigratePR_handleDryRun
    \/ MigratePR_dryRunReturn
    \/ MigratePR_Checkout
    \/ MigratePR_Pull
    \/ MigratePR_CheckoutPR
    \/ MigratePR_pushAndEmit
    \/ MigratePR_success

\* One call of MigratePR.
Next ==
    \/ \E ref \in References, o \in OptionsSet : MigratePR_call(ref, o)
    \/ MigratePRSteps(PRInfos)
    \/ MigratePR_return
    \/ Cancel

Spec == Init /\ [][Next]_vars

\* What a batch is run on: fewer references (BatchReferences) and initial
\* repositories than a single call, and a provider that answers with the PR
\* asked for.
BatchPRInfos == {p \in PRInfos : p.Number = target.number /\ p.State = "open"}

ReferenceLists == UNION {[1..n -> BatchReferences] : n \in 0..MaxRefs}

InitBatch ==
    /\ Init
    /\ remoteURL # NoRemote
    /\ locals \in {{"main", StartBranch}, {"main", StartBranch, "migrated-1"}}

\* One call of MigratePRs, or of MigratePR, on these inputs.
NextBatch ==
    \/ \E refs \in ReferenceLists, o \in OptionsSet : MigratePRs_call(refs, o)
    \/ \E ref \in BatchReferences, o \in OptionsSet : MigratePR_call(ref, o)
    \/ MigratePRs_next
    \/ MigratePRSteps(BatchPRInfos)
    \/ MigratePRs_record
    \/ MigratePRs_return
    \/ MigratePR_return

SpecBatch == InitBatch /\ [][NextBatch]_vars

\* The batches a caller cancels while they run.
CancelledBatches ==
    {<<"1">>, <<"1", "acme/widgets#2">>, <<"acme/widgets#2", "1">>, <<"1", "pr-1">>,
     <<"acme/widgets#2", "acme/widgets#2">>}

\* One call of MigratePRs whose context the caller may cancel at any moment.
NextBatchCancel ==
    \/ \E refs \in CancelledBatches, o \in OptionsSet : MigratePRs_call(refs, o)
    \/ MigratePRs_next
    \/ MigratePRSteps(BatchPRInfos)
    \/ MigratePRs_record
    \/ MigratePRs_return
    \/ Cancel

SpecBatchCancel == InitBatch /\ [][NextBatchCancel]_vars

\* The handlers a caller installs, one after the other, on a migrator that
\* New() made with the no-op handler.
Handlers == <<DefaultHandler, "first", "second">>

\* c.SetEventHandler(h), by the caller before the call or by the handler in
\* the course of it.
SetEventHandler(h) ==
    /\ \E i \in 1..(Len(Handlers) - 1) : handler = Handlers[i] /\ h = Handlers[i + 1]
    /\ handler' = h
    /\ UNCHANGED <<cli, titleSlug, top, prRefs, opts, idx, pc, target, pr, branchName, ret,
                   errors, successCount, batchRet, calls, events, current, locals, origin,
                   remoteURL, cancelled, before, runs>>

\* Batches that run one reference twice, and the options they are run with.
HandlerBatches == {<<"1", "1">>, <<"acme/widgets#2", "acme/widgets#2">>, <<"1">>}
HandlerOptions == {o \in OptionsSet : o.BranchName = "" /\ ~o.NoCreate}

\* One call of MigratePRs on a migrator whose handler is replaced meanwhile.
NextHandler ==
    \/ \E refs \in HandlerBatches, o \in HandlerOptions : MigratePRs_call(refs, o)
    \/ \E h \in {Handlers[i] : i \in DOMAIN Handlers} : SetEventHandler(h)
    \/ MigratePRs_next
    \/ MigratePRSteps(BatchPRInfos)
    \/ MigratePRs_record
    \/ MigratePRs_return

SpecHandler == InitBatch /\ [][NextHandler]_vars

\* Every collaborator call returns, so a running MigratePR takes its next step.
SpecFair == Spec /\ WF_vars(MigratePRSteps(PRInfos))

-----------------------------------------------------------------------------
(* The resolver on many references: one call of MigratePR on a reference   *)
(* of any shape, in a clone with any origin remote, against a provider     *)
(* that answers with an open PR from a fork.                               *)

ResolverReferences ==
    {"123", "1", "0", "-5", "+7", "007",
     "https://github.com/acme/widgets/pull/123", "http://github.com/acme/widgets/pull/7",
     "https://github.com/acme/widgets/pull/4/", "https://github.com/acme/widgets/pull/9?diff=split",
     "https://github.com/acme/widgets/pull/9#discussion",
     "https://github.com/acme/widgets/issues/5", "https://github.com/acme/widgets/pull/abc",
     "https://github.com/acme/widgets/pull", "https://github.com/acme/widgets/pull/1/files",
     "https://github.com/acme//pull/1", "https://github.com//widgets/pull/1",
     "https://github.com/acme/widgets/pull/0", "https://github.com/acme/widgets/pull/-3",
     "https://github.com:x/acme/widgets/pull/1",
     "acme/widgets#42", "acme/widgets#0", "acme/widgets#-1", "invalid#123", "a/b/c#1",
     "acme/widgets#abc", "invalid#abc", "acme/widgets#1#2", "#5", "/#5", "acme/widgets#",
     "abc", "pr-1", "", "acme/widgets", "12a", "ftp://github.com/acme/widgets/pull/1"}

ResolverRemotes ==
    {"git@github.com:acme/widgets.git", "git@github.com:acme/widgets",
     "https://github.com/acme/widgets.git", "https://github.com/acme/widgets",
     "git@github.com:acme.git", "https://gitlab.com/acme/widgets.git", NoRemote}

ResolverOptions ==
    [DryRun : BOOLEAN, BranchName : {""}, NoPush : {FALSE}, NoCreate : {FALSE}]

ResolverPRInfos ==
    [Number : {target.number}, Title : {"Fix bug #9"}, Author : {"dev"},
     BaseBranch : {"main"}, State : {"open"}, IsFork : {TRUE}]

InitResolve ==
    /\ top = "idle"
    /\ prRefs = <<>>
    /\ opts = [DryRun |-> FALSE, BranchName |-> "", NoPush |-> FALSE, NoCreate |-> FALSE]
    /\ idx = 1
    /\ pc = "none"
    /\ target = NoTarget
    /\ pr = NoPR
    /\ branchName = ""
    /\ titleSlug = ""
    /\ ret = Nil
    /\ errors = <<>>
    /\ successCount = 0
    /\ batchRet = Nil
    /\ calls = <<>>
    /\ events = <<>>
    /\ current = StartBranch
    /\ locals = {"main", StartBranch}
    /\ origin = {"main"}
    /\ remoteURL \in ResolverRemotes
    /\ cancelled = FALSE
    /\ before = [current |-> current, locals |-> locals, origin |-> origin]
    /\ runs = <<>>
    /\ handler = DefaultHandler
    /\ cli = NoCLI

NextResolve ==
    \/ \E ref \in ResolverReferences, o \in ResolverOptions : MigratePR_call(ref, o)
    \/ MigratePRSteps(ResolverPRInfos)
    \/ MigratePR_return

SpecResolve == InitResolve /\ [][NextResolve]_vars

-----------------------------------------------------------------------------
(* The Branch Namer called on its own: GenerateBranchName as migrate.go    *)
(* has it now (migrated-{number}), the slug-based GenerateBranchName the   *)
(* file also holds, and slugify.                                           *)

\* Whether the regular expression `[^a-z0-9]` matches the byte c.
reg(c) == Index(LowerLetters \o Digits, c) = 0

\* reg.ReplaceAllString(s, repl) for `[^a-z0-9]+`: every maximal run of
\* matching bytes becomes repl, once, where the run begins.
ReplaceAllString(str, repl) ==
    Eval(str, LAMBDA s :
        Eval([i \in 1..Len(s) |->
                 IF ~reg(Char(s, i)) THEN Char(s, i)
                 ELSE IF i = 1 \/ ~reg(Char(s, i - 1)) THEN repl
                 ELSE ""],
             LAMBDA pieces : Concat(pieces, 1, Len(s))))

\* slugify cutting at 40 bytes and leaving what the cut left.
slugify_noTrimRight(str) ==
    Eval(Trim(ReplaceAllString(ToLower(str), "-"), "-"), LAMBDA s :
        IF Len(s) > 40 THEN SubSeq(s, 1, 40) ELSE s)

slugify(str) ==
    Eval(Trim(ReplaceAllString(ToLower(str), "-"), "-"), LAMBDA s :
        IF Len(s) > 40 THEN TrimRight(SubSeq(s, 1, 40), "-") ELSE s)

min(a, b) == IF a < b THEN a ELSE b

\* The slug-based GenerateBranchName: pr-{number}-{author}-{title-slug}.
GenerateBranchNameSlug(p) ==
    LET base == "pr-" \o Itoa(p.Number) \o "-" \o p.Author \o "-"
        maxSlugLen == 80 - Len(base)
        name(slug) ==
            IF Len(base \o slug) > 80 /\ maxSlugLen > 0
            THEN base \o SubSeq(slug, 1, min(Len(slug), maxSlugLen))
            ELSE base \o slug
    IN  Eval(slugify(p.Title), name)

\* The titles, authors and numbers of the PRInfo values given to the namer.
NamingTitles ==
    {"Hello World", "", "Fix bug #9", "Fix memory leak in worker pool",
     "Add new feature! (WIP) - Part 1/2", "---leading-trailing---",
     "Special@#$%^&*()chars", "Multiple   spaces", "!!!",
     "Very long title that should be truncated to fit within the limit",
     "This is a very long title that should be truncated to fit within the branch name length limit of 80 characters",
     "Rewrite the configuration loader module -- and its tests",
     "Update dependency versions in the lockfile & regenerate docs for v2 UI"}

NamingAuthors == {"dev", "testuser", "a-contributor-with-a-long-github-login"}

NamingNumbers == {42, 123, 789}

NamingPRInfos ==
    [Number : NamingNumbers, Title : NamingTitles, Author : NamingAuthors,
     BaseBranch : {"main"}, State : {"open"}, IsFork : {TRUE}]

\* A client, and a PRInfo in its caller's hands.
InitNaming ==
    /\ top = "idle"
    /\ prRefs = <<>>
    /\ opts = [DryRun |-> FALSE, BranchName |-> "", NoPush |-> FALSE, NoCreate |-> FALSE]
    /\ idx = 1
    /\ pc = "none"
    /\ target = NoTarget
    /\ pr \in NamingPRInfos
    /\ branchName = ""
    /\ titleSlug = ""
    /\ ret = Nil
    /\ errors = <<>>
    /\ successCount = 0
    /\ batchRet = Nil
    /\ calls = <<>>
    /\ events = <<>>
    /\ current = StartBranch
    /\ locals = {"main", StartBranch}
    /\ origin = {"main"}
    /\ remoteURL = "git@github.com:acme/widgets.git"
    /\ cancelled = FALSE
    /\ before = [current |-> current, locals |-> locals, origin |-> origin]
    /\ runs = <<>>
    /\ handler = DefaultHandler
    /\ cli = NoCLI

\* The caller calls c.GenerateBranchName(pr), for the first time or again.
GenerateBranchName_call ==
    /\ top \in {"idle", "GenerateBranchName", "GenerateBranchNameSlug", "slugify"}
    /\ top' = "GenerateBranchName"
    /\ branchName' = GenerateBranchName(pr)
    /\ UNCHANGED <<handler, cli, titleSlug, prRefs, opts, idx, pc, target, pr, ret, errors, successCount,
                   batchRet, calls, events, current, locals, origin, remoteURL, cancelled,
                   before, runs>>

\* The caller calls the slug-based GenerateBranchName(pr).
GenerateBranchNameSlug_call ==
    /\ top \in {"idle", "GenerateBranchName", "GenerateBranchNameSlug", "slugify"}
    /\ top' = "GenerateBranchNameSlug"
    /\ branchName' = GenerateBranchNameSlug(pr)
    /\ UNCHANGED <<handler, cli, titleSlug, prRefs, opts, idx, pc, target, pr, ret, errors, successCount,
                   batchRet, calls, events, current, locals, origin, remoteURL, cancelled,
                   before, runs>>

\* titleSlug := slugify(pr.Title)
slugify_call ==
    /\ top \in {"idle", "GenerateBranchName", "GenerateBranchNameSlug", "slugify"}
    /\ top' = "slugify"
    /\ titleSlug' = slugify(pr.Title)
    /\ UNCHANGED <<handler, cli, branchName, prRefs, opts, idx, pc, target, pr, ret, errors, successCount,
                   batchRet, calls, events, current, locals, origin, remoteURL, cancelled,
                   before, runs>>

\* titleSlug = slugify(titleSlug): the caller slugifies what slugify returned.
slugify_again ==
    /\ top = "slugify"
    /\ top' = "slugify(slugify)"
    /\ titleSlug' = slugify(titleSlug)
    /\ UNCHANGED <<handler, cli, branchName, prRefs, opts, idx, pc, target, pr, ret, errors,
                   successCount, batchRet, calls, events, current, locals, origin, remoteURL,
                   cancelled, before, runs>>

NextNaming ==
    \/ GenerateBranchName_call
    \/ GenerateBranchNameSlug_call
    \/ slugify_call
    \/ slugify_again

SpecNaming == InitNaming /\ [][NextNaming]_vars

-----------------------------------------------------------------------------
(* The command line: run of cmd/git-mfpr/main.go and the migrator it       *)
(* constructs, the MockMigrator of internal/migrate/mock.go.               *)

\* func(event migrate.Event) { ui.HandleEvent(event) }
UIHandler == "ui.HandleEvent"

\* mockPRs, with the fields of PRInfo this model keeps.
mockPRs ==
    {[Number |-> 123, Title |-> "Fix memory leak in worker pool", Author |-> "johndoe",
      BaseBranch |-> "main", State |-> "open", IsFork |-> TRUE],
     [Number |-> 124, Title |-> "Add new feature for data processing", Author |-> "janedoe",
      BaseBranch |-> "main", State |-> "open", IsFork |-> TRUE],
     [Number |-> 125, Title |-> "Update documentation", Author |-> "alice",
      BaseBranch |-> "main", State |-> "open", IsFork |-> FALSE]}

\* regexp.MustCompile(`/pull/(\d+)`).FindStringSubmatch(s)[1] as a number, 0
\* when there is no match: the leftmost match and all the digits that follow.
FindPullNumber(str) ==
    LET hits(s) == {i \in 1..(Len(s) - 6) : /\ SubSeq(s, i, i + 5) = "/pull/"
                                             /\ IsDigit(Char(s, i + 6))}
        last(s, i) == CHOOSE j \in (i + 6)..Len(s) :
                          /\ \A k \in (i + 6)..j : IsDigit(Char(s, k))
                          /\ j = Len(s) \/ ~IsDigit(Char(s, j + 1))
        number(s, h) == IF h = {} THEN 0
                        ELSE Eval(CHOOSE i \in h : \A j \in h : i <= j,
                                  LAMBDA i : DigitsValue(SubSeq(s, i + 6, last(s, i))))
    IN  Eval(str, LAMBDA s : Eval(hits(s), LAMBDA h : number(s, h)))

\* (m *MockMigrator) parsePRRef
MockMigrator_parsePRRef(ref) ==
    LET afterHash(parts) ==
            IF Len(parts) = 2
            THEN Eval(Atoi(parts[2]), LAMBDA n : IF n.ok THEN n.val ELSE 0)
            ELSE 0
        prNumber(n) ==
            IF n.ok THEN n.val
            ELSE IF Contains(ref, "#") THEN Eval(Split(ref, "#"), afterHash)
            ELSE IF Contains(ref, "github.com") THEN FindPullNumber(ref)
            ELSE 0
        lookup(num) ==
            IF num = 0
            THEN [pr |-> NoPR, err |-> Errorf("invalid PR reference: " \o ref)]
            ELSE IF \E p \in mockPRs : p.Number = num
            THEN [pr |-> CHOOSE p \in mockPRs : p.Number = num, err |-> Nil]
            ELSE [pr |-> NoPR, err |-> Errorf("PR #" \o Itoa(num) \o " not found")]
    IN  Eval(Eval(Atoi(ref), prNumber), lookup)

\* (m *MockMigrator) GenerateBranchName: the slug keeps the hyphens of the
\* title, the pattern being `[^a-z0-9-]+`.
MockMigrator_GenerateBranchName(p) ==
    LET kept(c) == Index(LowerLetters \o Digits \o "-", c) # 0
        replaced(s) ==
            Eval([i \in 1..Len(s) |->
                     IF kept(Char(s, i)) THEN Char(s, i)
                     ELSE IF i = 1 \/ kept(Char(s, i - 1)) THEN "-"
                     ELSE ""],
                 LAMBDA pieces : Concat(pieces, 1, Len(s)))
        limited(slug) == IF Len(slug) > 40 THEN TrimRight(SubSeq(slug, 1, 40), "-") ELSE slug
    IN  Eval(Eval(Trim(Eval(ToLower(p.Title), replaced), "-"), limited),
             LAMBDA slug : "pr-" \o Itoa(p.Number) \o "-" \o ToLower(p.Author) \o "-" \o slug)

\* (m *MockMigrator) MigratePR: the error it returns and the log after the
\* events it has handed to its handler.
MockMigrator_MigratePR(ref, o, log) ==
    LET simulate(p, name) ==
            LET l1 == emit(log, "info", "Fetching PR information...", "")
                l2 == emit(l1, "step", "Title: " \o p.Title, "")
                l3 == emit(l2, "step", "Author: " \o p.Author, "")
                l4 == emit(l3, "step", "Base branch: " \o p.BaseBranch, "")
                l5 == IF p.IsFork THEN emit(l4, "step", "PR is from a fork", "") ELSE l4
                l6 == emit(l5, "step", "Branch: " \o name, "")
                l7 == emit(l6, "command", "", "git checkout " \o p.BaseBranch)
                l8 == emit(l7, "command", "", "git pull origin main")
                l9 == emit(l8, "info", "Creating local branch...", "")
                l10 == emit(l9, "command", "",
                            "gh pr checkout " \o Itoa(p.Number) \o " -b " \o name)
                l11 == IF ~o.NoPush
                       THEN emit(emit(emit(l10, "info", "Pushing to origin...", ""),
                                      "command", "", "git push -u origin " \o name),
                                 "success", "Pushed to origin", "")
                       ELSE l10
                l12 == IF ~o.NoCreate
                       THEN emit(emit(l11, "info", "\nCreate PR with:", ""), "command", "",
                                 "gh pr create --title \"" \o p.Title
                                     \o "\" \\\n  --body \"Migrated from #" \o Itoa(p.Number)
                                     \o "\\nOriginal author: @" \o p.Author
                                     \o "\" \\\n  --base " \o p.BaseBranch)
                       ELSE l11
            IN  emit(l12, "success", "Migration complete!", "")
        outcome(parsed) ==
            IF parsed.err # Nil THEN [err |-> parsed.err, log |-> log]
            ELSE [err |-> Nil,
                  log |-> simulate(parsed.pr,
                                   IF o.BranchName = ""
                                   THEN MockMigrator_GenerateBranchName(parsed.pr)
                                   ELSE o.BranchName)]
    IN  Eval(MockMigrator_parsePRRef(ref), outcome)

\* The arguments of the command line.
CLIArguments ==
    {"123", "owner/repo#124", "https://github.com/owner/repo/pull/125", "999", "abc"}

\* Args: cobra.MinimumNArgs(1)
CLIArgumentLists == UNION {[1..n -> CLIArguments] : n \in 1..MaxRefs}

InitCLI ==
    /\ InitBatch
    /\ locals = {"main", StartBranch}

\* cobra calls run(cmd, args) with the flags parsed into dryRun, noPush,
\* noCreate and branchName.
run_call(args, flags) ==
    /\ top = "idle"
    /\ top' = "run"
    /\ prRefs' = args
    /\ opts' = flags
    /\ cli' = [NoCLI EXCEPT !.pc = "flags"]
    /\ UNCHANGED <<handler, titleSlug, idx, pc, target, pr, branchName, ret, errors, successCount,
                   batchRet, calls, events, current, locals, origin, remoteURL, cancelled,
                   before, runs>>

\* run not checking --branch-name against the number of PRs.
run_checkBranchName_skipped ==
    /\ top = "run"
    /\ cli.pc = "flags"
    /\ cli' = [cli EXCEPT !.pc = "loop", !.i = 1, !.failed = FALSE]
    /\ handler' = UIHandler
    /\ UNCHANGED <<top, titleSlug, prRefs, opts, idx, pc, target, pr, branchName, ret, errors,
                   successCount, batchRet, calls, events, current, locals, origin, remoteURL,
                   cancelled, before, runs>>

\* if branchName != "" && len(args) > 1 { ui.Error(...); os.Exit(1) }
\* migrator := migrate.NewMockMigrator(func(event) { ui.HandleEvent(event) })
run_checkBranchName ==
    /\ top = "run"
    /\ cli.pc = "flags"
    /\ IF opts.BranchName # "" /\ Len(prRefs) > 1
       THEN /\ cli' = [cli EXCEPT !.errors = Append(@, "--branch-name can only be used with a single PR"),
                                  !.exit = 1,
                                  !.pc = "exited"]
            /\ top' = "returned"
            /\ UNCHANGED handler
       ELSE /\ cli' = [cli EXCEPT !.pc = "loop", !.i = 1, !.failed = FALSE]
            /\ handler' = UIHandler
            /\ UNCHANGED top
    /\ UNCHANGED <<titleSlug, prRefs, opts, idx, pc, target, pr, branchName, ret, errors,
                   successCount, batchRet, calls, events, current, locals, origin, remoteURL,
                   cancelled, before, runs>>

\* for _, prRef := range args { ui.StartPR(prRef)
run_StartPR ==
    /\ top = "run"
    /\ cli.pc = "loop"
    /\ cli.i <= Len(prRefs)
    /\ cli' = [cli EXCEPT !.startPRCalls = Append(@, prRefs[cli.i]), !.pc = "MigratePR"]
    /\ UNCHANGED <<handler, top, titleSlug, prRefs, opts, idx, pc, target, pr, branchName, ret,
                   errors, successCount, batchRet, calls, events, current, locals, origin,
                   remoteURL, cancelled, before, runs>>

\* run leaving the loop at the first reference that fails.
run_MigratePR_break ==
    /\ top = "run"
    /\ cli.pc = "MigratePR"
    /\ \E r \in {MockMigrator_MigratePR(prRefs[cli.i], opts, events)} :
          /\ events' = r.log
          /\ cli' = IF r.err # Nil
                    THEN [cli EXCEPT !.migrated = Append(@, prRefs[cli.i]),
                                     !.errors = Append(@, ErrorText(r.err)),
                                     !.failed = TRUE,
                                     !.i = Len(prRefs) + 1,
                                     !.pc = "loop"]
                    ELSE [cli EXCEPT !.migrated = Append(@, prRefs[cli.i]),
                                     !.i = @ + 1,
                                     !.pc = "loop"]
    /\ UNCHANGED <<handler, top, titleSlug, prRefs, opts, idx, pc, target, pr, branchName, ret,
                   errors, successCount, batchRet, calls, current, locals, origin, remoteURL,
                   cancelled, before, runs>>

\* if err := migrator.MigratePR(ctx, prRef, opts); err != nil {
\*     ui.Error(err); failed = true; continue }
run_MigratePR ==
    /\ top = "run"
    /\ cli.pc = "MigratePR"
    /\ \E r \in {MockMigrator_MigratePR(prRefs[cli.i], opts, events)} :
          /\ events' = r.log
          /\ cli' = IF r.err # Nil
                    THEN [cli EXCEPT !.migrated = Append(@, prRefs[cli.i]),
                                     !.errors = Append(@, ErrorText(r.err)),
                                     !.failed = TRUE,
                                     !.i = @ + 1,
                                     !.pc = "loop"]
                    ELSE [cli EXCEPT !.migrated = Append(@, prRefs[cli.i]),
                                     !.i = @ + 1,
                                     !.pc = "loop"]
    /\ UNCHANGED <<handler, top, titleSlug, prRefs, opts, idx, pc, target, pr, branchName, ret,
                   errors, successCount, batchRet, calls, current, locals, origin, remoteURL,
                   cancelled, before, runs>>

\* if failed { os.Exit(1) }
run_return ==
    /\ top = "run"
    /\ cli.pc = "loop"
    /\ cli.i > Len(prRefs)
    /\ cli' = IF cli.failed THEN [cli EXCEPT !.exit = 1, !.pc = "exited"]
              ELSE [cli EXCEPT !.pc = "returned"]
    /\ top' = "returned"
    /\ UNCHANGED <<handler, titleSlug, prRefs, opts, idx, pc, target, pr, branchName, ret, errors,
                   successCount, batchRet, calls, events, current, locals, origin, remoteURL,
                   cancelled, before, runs>>

NextCLI ==
    \/ \E args \in CLIArgumentLists, flags \in OptionsSet : run_call(args, flags)
    \/ run_checkBranchName
    \/ run_StartPR
    \/ run_MigratePR
    \/ run_return

SpecCLI == InitCLI /\ [][NextCLI]_vars

-----------------------------------------------------------------------------
(* The claims.                                                             *)

Terminal == {"Done", "Failed"}

\* The collaborator methods that change the repository or the host.
Mutating == {"Checkout", "Pull", "Push", "DeleteBranch", "CheckoutPR", "CreatePR"}

\* The collaborator calls of the run in progress (or just finished).
ThisRun == SelectSeq(calls, LAMBDA c : c.run = idx)

Called(ops) == \E i \in DOMAIN ThisRun : ThisRun[i].op \in ops

\* C1: a run calls HasBranch, Checkout, Pull, CheckoutPR or Push only when the
\* PRInfo it fetched is from a fork and its state is "open" in some letter case,
\* and a run that fetched such a PRInfo does go on to call HasBranch.
C1_ValidationGate ==
    LET past  == Called({"HasBranch", "Checkout", "Pull", "CheckoutPR", "Push"})
        valid == pr # NoPR /\ pr.IsFork /\ ToLower(pr.State) = "open"
    IN  /\ past => valid
        /\ (pc \in Terminal /\ valid) => past

C1_Witness ==
    /\ pc \in Terminal
    /\ pr.IsFork
    /\ pr.State = "OPEN"
    /\ Called({"HasBranch"})

\* C2: under options.dryRun no mutating collaborator method is ever invoked,
\* by MigratePR or by MigratePRs, whatever the other options.
C2_DryRunNeverMutates ==
    opts.DryRun => \A i \in DOMAIN calls : calls[i].op \notin Mutating

C2_Witness ==
    /\ top = "returned"
    /\ opts.DryRun
    /\ Len(prRefs) = MaxRefs
    /\ \A i \in DOMAIN runs : runs[i].ret = Nil

\* C3: when HasBranch answers that the planned name exists (options.branchName
\* if non-empty, else the generated name), the run has failed with
\* ErrBranchExists carrying that name and has made no mutating call, under
\* dry-run or not.
C3_BranchExists ==
    LET planned == IF opts.BranchName # "" THEN opts.BranchName
                   ELSE "migrated-" \o ToString(pr.Number)
    IN  \A i \in DOMAIN ThisRun :
            (ThisRun[i].op = "HasBranch" /\ ThisRun[i].val.exists) =>
                /\ ThisRun[i].args = <<planned>>
                /\ pc = "Failed"
                /\ ret = [kind |-> "ErrBranchExists", BranchName |-> planned]
                /\ ~Called(Mutating)

C3_Witness ==
    /\ pc = "Failed"
    /\ ret.kind = "ErrBranchExists"
    /\ opts.BranchName = ""
    /\ ~opts.DryRun

\* The states of the orchestrator's state machine; the positions between the
\* existence check and the last mutation all belong to BranchPlanned.
Phase(p) == IF p \in {"BaseCheckedOut", "BasePulled", "PRCheckedOut"} THEN "BranchPlanned" ELSE p

PhaseSteps ==
    {<<"none", "Start">>, <<"Start", "ReferenceResolved">>, <<"ReferenceResolved", "PRFetched">>,
     <<"PRFetched", "Validated">>, <<"Validated", "BranchPlanned">>,
     <<"BranchPlanned", "DryRunReported">>, <<"BranchPlanned", "Executed">>,
     <<"DryRunReported", "Done">>, <<"Executed", "Done">>}
    \cup {<<p, "Failed">> : p \in {"Start", "ReferenceResolved", "PRFetched", "Validated", "BranchPlanned"}}

\* C4: a run of MigratePR moves through Start, ReferenceResolved, PRFetched,
\* Validated, BranchPlanned, then DryRunReported or Executed, then Done, one
\* state at a time and never backwards, or leaves that path for Failed; Done
\* returns nil, Failed returns an error, neither is ever left, and when every
\* collaborator call returns the run reaches one of the two.
C4_StateMachine ==
    /\ [][Phase(pc') # Phase(pc) => <<Phase(pc), Phase(pc')>> \in PhaseSteps]_vars
    /\ [][(pc \in Terminal) => (pc' = pc)]_vars
    /\ [](pc = "Done" => ret = Nil)
    /\ [](pc = "Failed" => ret # Nil)
    /\ (pc = "Start") ~> (pc \in Terminal)

C4_Witness ==
    /\ pc = "Done"
    /\ ~opts.DryRun
    /\ Called({"CheckoutPR"})

\* The run's calls other than the CurrentRepo of reference resolution.
AfterResolution == SelectSeq(ThisRun, LAMBDA c : c.op # "CurrentRepo")

CallOrder == <<"GetPR", "HasBranch", "Checkout", "Pull", "CheckoutPR", "Push">>

\* C5: the calls of a run are GetPR, HasBranch, Checkout(base), Pull(origin,
\* base), CheckoutPR(number, branch), Push(origin, branch) in this order, each
\* made only after the one before returned without error, the mutating ones
\* only in a real run and Push only when noPush is false; a real run that
\* returns nil has made all of them (all but Push under noPush).
C5_MutationOrder ==
    LET r == AfterResolution
    IN  /\ Len(r) <= Len(CallOrder)
        /\ \A i \in DOMAIN r : r[i].op = CallOrder[i]
        /\ \A i \in DOMAIN r : i < Len(r) => r[i].err = Nil
        /\ \A i \in DOMAIN r :
              /\ r[i].op \in Mutating => ~opts.DryRun
              /\ r[i].op = "Checkout" => r[i].args = <<pr.BaseBranch>>
              /\ r[i].op = "Pull" => r[i].args = <<"origin", pr.BaseBranch>>
              /\ r[i].op = "CheckoutPR" => r[i].args[3] = pr.Number /\ r[i].args[4] = branchName
              /\ r[i].op = "Push" => r[i].args = <<"origin", branchName>> /\ ~opts.NoPush
        /\ (pc = "Done" /\ ~opts.DryRun) => Len(r) = IF opts.NoPush THEN 5 ELSE 6

C5_Witness ==
    /\ pc = "Done"
    /\ ~opts.DryRun
    /\ ~opts.NoPush
    /\ Len(AfterResolution) = 6

\* C6: when GetPR, Checkout, Pull, CheckoutPR or Push returns an error, that
\* call is the last one of the run and MigratePR returns the same error value.
C6_ErrorPropagation ==
    \A i \in DOMAIN ThisRun :
        (ThisRun[i].op \in {"GetPR", "Checkout", "Pull", "CheckoutPR", "Push"}
            /\ ThisRun[i].err # Nil) =>
                /\ i = Len(ThisRun)
                /\ pc = "Failed"
                /\ ret = ThisRun[i].err

C6_Witness ==
    /\ pc = "Failed"
    /\ Len(ThisRun) > 0
    /\ ThisRun[Len(ThisRun)].op = "CheckoutPR"
    /\ ret = ThisRun[Len(ThisRun)].err

\* The last collaborator call of the run.
LastCall == ThisRun[Len(ThisRun)]

\* C7: no collaborator method is invoked twice in one run of MigratePR, and
\* MigratePRs invokes MigratePR at most once for a position of its list, and
\* exactly once for every position by the time it returns, failed or not.
C7_NothingRetried ==
    /\ \A i, j \in DOMAIN calls :
          (i < j /\ calls[i].run = calls[j].run) => calls[i].op # calls[j].op
    /\ \A k \in DOMAIN prRefs : Cardinality({i \in DOMAIN runs : runs[i].idx = k}) <= 1
    /\ top = "returned" =>
          \A k \in DOMAIN prRefs : Cardinality({i \in DOMAIN runs : runs[i].idx = k}) = 1

C7_Witness ==
    /\ top = "returned"
    /\ Len(prRefs) = MaxRefs
    /\ \A i \in DOMAIN runs : runs[i].ret # Nil
    /\ Len(calls) >= MaxRefs

\* C8: DeleteBranch is never invoked, and a real run that failed at Pull,
\* CheckoutPR or Push has kept what its earlier steps did: every branch that
\* existed before still exists, the base branch is the one checked out after
\* a failed Pull or CheckoutPR, and after a failed Push the new branch exists
\* locally and is the one checked out.
C8_NoCompensation ==
    /\ \A i \in DOMAIN calls : calls[i].op # "DeleteBranch"
    /\ (pc = "Failed" /\ Len(ThisRun) > 0 /\ LastCall.op \in {"Pull", "CheckoutPR", "Push"}) =>
          /\ before.locals \subseteq locals
          /\ before.origin \subseteq origin
          /\ pr.BaseBranch \in locals
          /\ LastCall.op \in {"Pull", "CheckoutPR"} => current = pr.BaseBranch
          /\ LastCall.op = "Push" => current = branchName /\ branchName \in locals

C8_Witness ==
    /\ pc = "Failed"
    /\ Len(ThisRun) > 0
    /\ LastCall.op = "Push"
    /\ branchName \in locals
    /\ branchName \notin before.locals

\* C9: a run under dry-run, and a run that failed in reference resolution, in
\* the fetch, in validation or at the existence check, leaves the checked-out
\* branch, the local branches and the origin branches as they were.
C9_RepositoryUntouched ==
    (pc \in Terminal
        /\ (opts.DryRun
            \/ (pc = "Failed"
                /\ (Len(ThisRun) = 0 \/ LastCall.op \in {"CurrentRepo", "GetPR", "HasBranch"}))))
      => Repository = before

C9_Witness ==
    /\ pc = "Failed"
    /\ ret.kind = "ErrBranchExists"
    /\ opts.BranchName = CustomBranch
    /\ Repository = before

\* C10: MigratePRs runs MigratePR on its references one after the other in
\* list order: the k-th invocation is for the k-th reference, an invocation
\* begins only when the one before has returned, the collaborator calls of
\* different references do not interleave, and when MigratePRs returns every
\* reference has had its invocation, failures before it or not.
C10_Sequential ==
    /\ \A k \in DOMAIN runs :
          /\ k <= Len(prRefs)
          /\ runs[k].idx = k
          /\ runs[k].ref = prRefs[k]
          /\ k < Len(runs) => runs[k].ret # Running
    /\ \A i, j \in DOMAIN calls : i < j => calls[i].run <= calls[j].run
    /\ \A i \in DOMAIN calls : calls[i].run <= Len(runs)
    /\ top = "returned" => Len(runs) = Len(prRefs)

C10_Witness ==
    /\ top = "returned"
    /\ Len(prRefs) = 2
    /\ runs[1].ret # Nil
    /\ runs[2].ret = Nil
    /\ \E i \in DOMAIN calls : calls[i].run = 2 /\ calls[i].op = "CheckoutPR"

\* What MigratePRs is about to return from, and has returned from.
BatchReturns == top = "MigratePRs" /\ top' = "returned"

\* The runs of the batch that failed, in the order of the list.
FailedRuns == SelectSeq(runs, LAMBDA r : r.ret # Nil)

\* C11: MigratePRs returns an error exactly when some reference failed, and
\* the text of that one error lists, in list order, one "PR <reference>:
\* <message>" line for each failed reference and none for a reference that
\* succeeded.
C11_AggregateError ==
    [][BatchReturns =>
          /\ (batchRet' # Nil) <=> (\E i \in DOMAIN runs : runs[i].ret # Nil)
          /\ batchRet' # Nil =>
                batchRet' = Errorf("failed to migrate some PRs:\n"
                                      \o Join([i \in DOMAIN FailedRuns |->
                                                  "PR " \o FailedRuns[i].ref \o ": "
                                                      \o ErrorText(FailedRuns[i].ret)], "\n"))]_vars

C11_Witness ==
    /\ top = "returned"
    /\ Len(prRefs) = 2
    /\ runs[1].ret # Nil
    /\ runs[2].ret # Nil
    /\ runs[1].ret # runs[2].ret
    /\ batchRet # Nil

\* C12: in a batch, what a reference that succeeded has made stays when a
\* later reference fails: the branch of every successful CheckoutPR is still
\* a local branch and the branch of every successful Push is still on origin.
\* And a failure ends only its own reference: the loop moves on to the next
\* position with the repository as the failed run left it.
C12_FailuresIsolated ==
    /\ [](\A i \in DOMAIN calls :
            /\ (calls[i].op = "CheckoutPR" /\ calls[i].err = Nil) => calls[i].args[4] \in locals
            /\ (calls[i].op = "Push" /\ calls[i].err = Nil) => calls[i].args[2] \in origin)
    /\ [][(top = "MigratePRs" /\ pc = "Failed" /\ pc' # pc) =>
             /\ top' = top
             /\ idx' = idx + 1
             /\ pc' = "none"
             /\ opts' = opts
             /\ Repository' = Repository]_vars

C12_Witness ==
    /\ top = "returned"
    /\ Len(prRefs) = 2
    /\ runs[1].ret = Nil
    /\ runs[2].ret # Nil
    /\ \E i, j \in DOMAIN calls :
          /\ calls[i].run = 1 /\ calls[i].op = "Push" /\ calls[i].err = Nil
          /\ calls[i].args[2] \in locals \cap origin
          /\ calls[j].run = 2 /\ calls[j].op = "GetPR" /\ calls[j].err # Nil

\* The summary events of a log: "Migrated X/Y PRs successfully" and
\* "Successfully migrated all Y PRs".
Summaries(log) ==
    SelectSeq(log, LAMBDA e : \/ HasPrefix(e.Message, "Migrated ")
                              \/ HasPrefix(e.Message, "Successfully migrated all "))

\* C13: MigratePRs emits no summary event while it runs and exactly one when
\* it returns: after a failure the Info event "Migrated X/Y PRs successfully",
\* Y the length of the list and X the number of invocations that returned
\* nil, X plus the number of failures being Y; otherwise the Success event
\* "Successfully migrated all Y PRs".
C13_OneSummary ==
    /\ [](top = "MigratePRs" => Summaries(events) = <<>>)
    /\ [][BatchReturns =>
             LET Y == Len(prRefs)
                 X == Cardinality({i \in DOMAIN runs : runs[i].ret = Nil})
             IN  /\ X + Len(FailedRuns) = Y
                 /\ Summaries(events') =
                       IF Len(FailedRuns) > 0
                       THEN <<Event("info", "Migrated " \o Itoa(X) \o "/" \o Itoa(Y)
                                               \o " PRs successfully", "")>>
                       ELSE <<Event("success", "Successfully migrated all " \o Itoa(Y)
                                                  \o " PRs", "")>>]_vars

C13_Witness ==
    /\ top = "returned"
    /\ Len(prRefs) = 2
    /\ runs[1].ret = Nil
    /\ runs[2].ret # Nil
    /\ Summaries(events) = <<Event("info", "Migrated 1/2 PRs successfully", "")>>

\* The PRInfo this run has fetched and validated, if it has.
Fetched ==
    {ThisRun[i].val : i \in {j \in DOMAIN ThisRun : /\ ThisRun[j].op = "GetPR"
                                                     /\ ThisRun[j].err = Nil
                                                     /\ pc # "PRFetched"}}

\* C14: a run that fetched a PRInfo with isFork false fails with PRNotFork
\* carrying the number of that PRInfo, whatever the state: the fork check
\* comes before the state check.
C14_NotForkFirst ==
    \A p \in Fetched : ~p.IsFork => (pc = "Failed" /\ ret = ErrPRNotFork(p.Number))

C14_Witness ==
    /\ pc = "Failed"
    /\ \E p \in Fetched : ~p.IsFork /\ p.State = "CLOSED" /\ ret = ErrPRNotFork(p.Number)

\* C15 as stated: a run that fetched a PRInfo whose state is "closed" in any
\* letter case fails with PRClosed carrying that state as reported.
C15_ClosedAlwaysPRClosed ==
    \A p \in Fetched :
        ToLower(p.State) = "closed" => (pc = "Failed" /\ ret = ErrPRClosed(p.Number, p.State))

\* C15: a run that fetched a PRInfo from a fork whose state is "closed" in
\* any letter case fails with PRClosed carrying the state exactly as the
\* provider reported it.
C15_ClosedFork ==
    \A p \in Fetched :
        (p.IsFork /\ ToLower(p.State) = "closed") =>
            (pc = "Failed" /\ ret = ErrPRClosed(p.Number, p.State))

C15_Witness ==
    /\ pc = "Failed"
    /\ \E p \in Fetched : p.IsFork /\ p.State = "Closed" /\ ret = ErrPRClosed(p.Number, "Closed")

\* The collaborator methods this run has invoked, in order.
Invoked == [i \in DOMAIN ThisRun |-> ThisRun[i].op]

\* C16 as stated: under dry-run MigratePR invokes no collaborator method but
\* GetPR and HasBranch, whatever the form of the reference.
C16_OnlyGetPRAndHasBranch ==
    (top = "MigratePR" /\ opts.DryRun) =>
        \A i \in DOMAIN Invoked : Invoked[i] \in {"GetPR", "HasBranch"}

\* C16: under dry-run MigratePR invokes GetPR and HasBranch and, for a
\* bare-number reference only, CurrentRepo once before them; it invokes no
\* other collaborator method, whatever the form of the reference.
C16_DryRunCalls ==
    (top = "MigratePR" /\ opts.DryRun) =>
        /\ \A i \in DOMAIN Invoked : Invoked[i] \in {"CurrentRepo", "GetPR", "HasBranch"}
        /\ \A i \in DOMAIN Invoked : Invoked[i] = "CurrentRepo" => (i = 1 /\ Atoi(prRef).ok)
        /\ (Atoi(prRef).ok /\ pc # "Start") => (Len(Invoked) > 0 /\ Invoked[1] = "CurrentRepo")

C16_Witness ==
    /\ top = "MigratePR"
    /\ opts.DryRun
    /\ pc = "Done"
    /\ prRef = "https://github.com/acme/widgets/pull/1"
    /\ Invoked = <<"GetPR", "HasBranch">>

\* The details of the Command events of a log, in order.
CommandDetails(log) ==
    LET commands == SelectSeq(log, LAMBDA e : e.Type = "command")
    IN  [i \in DOMAIN commands |-> commands[i].Detail]

\* C17: a dry run of MigratePR that succeeded has returned nil and has emitted
\* as Command events, in this order, "git checkout {base}", "git pull origin
\* {base}", "gh pr checkout {number} -b {branch}", then "git push -u origin
\* {branch}" exactly when noPush is false, then the "gh pr create ..."
\* suggestion exactly when noCreate is false, and no other Command event.
C17_DryRunCommands ==
    (top = "MigratePR" /\ opts.DryRun /\ pc = "Done") =>
        LET branch == IF opts.BranchName = "" THEN "migrated-" \o ToString(pr.Number)
                      ELSE opts.BranchName
            steps  == <<"git checkout " \o pr.BaseBranch,
                        "git pull origin " \o pr.BaseBranch,
                        "gh pr checkout " \o ToString(pr.Number) \o " -b " \o branch>>
                      \o (IF opts.NoPush THEN <<>> ELSE <<"git push -u origin " \o branch>>)
            got    == CommandDetails(events)
        IN  /\ ret = Nil
            /\ Len(got) = Len(steps) + (IF opts.NoCreate THEN 0 ELSE 1)
            /\ SubSeq(got, 1, Len(steps)) = steps
            /\ ~opts.NoCreate => HasPrefix(got[Len(got)], "gh pr create ")

C17_Witness ==
    /\ top = "MigratePR"
    /\ opts.DryRun
    /\ pc = "Done"
    /\ opts.NoPush
    /\ ~opts.NoCreate
    /\ Len(CommandDetails(events)) = 4

\* C18: a real run of MigratePR under noPush never invokes Push and never
\* emits the Success event "Pushed to origin", and once its Checkout, Pull
\* and CheckoutPR have succeeded it ends with nil.
C18_NoPush ==
    (top = "MigratePR" /\ opts.NoPush /\ ~opts.DryRun) =>
        /\ \A i \in DOMAIN Invoked : Invoked[i] # "Push"
        /\ \A i \in DOMAIN events : events[i].Message # "Pushed to origin"
        /\ (pc \in Terminal /\ \E i \in DOMAIN ThisRun : /\ ThisRun[i].op = "CheckoutPR"
                                                          /\ ThisRun[i].err = Nil)
              => (pc = "Done" /\ ret = Nil)

C18_Witness ==
    /\ top = "MigratePR"
    /\ opts.NoPush
    /\ ~opts.DryRun
    /\ pc = "Done"
    /\ ret = Nil
    /\ Invoked[Len(Invoked)] = "CheckoutPR"
    /\ branchName \in locals \ origin

\* Where a log holds the PR-creation Command event, and where it holds the
\* overall Success event of a migration.
CreateCommands(log) ==
    {k \in DOMAIN log : log[k].Type = "command" /\ HasPrefix(log[k].Detail, "gh pr create ")}

MigratedEvents(log) ==
    {k \in DOMAIN log : /\ log[k].Type = "success"
                        /\ HasPrefix(log[k].Message, "Successfully migrated PR #")}

\* The invocations of MigratePR that have ended with nil so far.
Succeeded ==
    Cardinality({i \in DOMAIN runs : runs[i].ret = Nil})
        + (IF pc = "Done" /\ runs # <<>> /\ runs[Len(runs)].ret = Running THEN 1 ELSE 0)

\* C19: CreatePR is never invoked, under any options, by MigratePR or by
\* MigratePRs.  In real runs there is one overall Success event for each
\* invocation that succeeded, and the PR-creation Command event is emitted
\* once for each of them when noCreate and noPush are both false and not at
\* all otherwise, each time after the Success event of its invocation.
C19_CreateSuggestion ==
    /\ \A i \in DOMAIN calls : calls[i].op # "CreatePR"
    /\ (top # "idle" /\ ~opts.DryRun) =>
          /\ Cardinality(MigratedEvents(events)) = Succeeded
          /\ Cardinality(CreateCommands(events)) =
                IF ~opts.NoCreate /\ ~opts.NoPush THEN Succeeded ELSE 0
          /\ \A k \in CreateCommands(events) :
                Cardinality({j \in MigratedEvents(events) : j < k})
                    = Cardinality({j \in CreateCommands(events) : j <= k})

C19_Witness ==
    /\ top = "returned"
    /\ ~opts.DryRun /\ ~opts.NoCreate /\ ~opts.NoPush
    /\ Len(prRefs) = 2
    /\ runs[1].ret = Nil
    /\ runs[2].ret # Nil
    /\ \E i \in DOMAIN calls : calls[i].run = 2 /\ calls[i].op = "Push" /\ calls[i].err # Nil
    /\ Cardinality(CreateCommands(events)) = 1

\* A call that did not succeed: it returned an error, or it is HasBranch
\* answering false because its command could not run.
CallFailed(c) == c.err # Nil \/ (c.op = "HasBranch" /\ ~c.val.exists)

\* C20: every collaborator call made for MigratePR, the CurrentRepo call of
\* a bare-number reference included, is given the context the caller passed,
\* so every call made once that context is cancelled fails.
C20_ContextPropagated ==
    /\ [](\A i \in DOMAIN calls : calls[i].ctx = "ctx")
    /\ [][(cancelled /\ Len(calls') > Len(calls)) => CallFailed(calls'[Len(calls')])]_vars

-----------------------------------------------------------------------------
(* The Reference Resolver (C21..C27), over the references and remotes of   *)
(* SpecResolve.                                                            *)

\* The resolver has returned: with a PRReference, or with an error.
ResolutionDone == pc \notin {"none", "Start"}
ResolutionFailed == pc = "Failed" /\ ~Called({"GetPR"})
ResolutionOK == ResolutionDone /\ ~ResolutionFailed

\* Decimal integers: an optional sign and then digits.
IsInteger(s) ==
    LET body == IF s # "" /\ Char(s, 1) \in {"+", "-"} THEN Tail(s) ELSE s
    IN  body # "" /\ \A i \in 1..Len(body) : Char(body, i) \in
            {"0", "1", "2", "3", "4", "5", "6", "7", "8", "9"}
IsURLReference(s) == HasPrefix(s, "http://") \/ HasPrefix(s, "https://")

\* The spec's error kinds, as the messages of migrate.go.
InvalidPRURL(e) ==
    \/ e = Errorf("invalid GitHub PR URL format")
    \/ e.kind = "wrapped" /\ e.msg \in {"invalid PR number in URL", "invalid URL"}
InvalidRepoFormat(e) == e = Errorf("invalid repo format, expected owner/repo")
InvalidPRNumber(e) == e.kind = "wrapped" /\ e.msg = "invalid PR number"
RepoResolutionFailed(e) ==
    /\ e.kind = "wrapped"
    /\ e.msg = "not in a git repository or no origin remote"
    /\ e.inner.kind \in {"ErrGetRemoteURLFailed", "ErrInvalidRemoteURL"}

\* C21: for a reference that is a bare decimal number n the resolver asks the
\* Git provider for the current repository once and, when that succeeds,
\* returns (owner, repo, n) with the owner and repo of that answer; "123" under
\* the origin git@github.com:acme/widgets.git resolves to (acme, widgets, 123).
C21_BareNumber ==
    (ResolutionDone /\ IsInteger(prRef) /\ Char(prRef, 1) \notin {"+", "-"}) =>
        /\ Len(ThisRun) > 0
        /\ ThisRun[1].op = "CurrentRepo"
        /\ ThisRun[1].err = Nil =>
               /\ ResolutionOK
               /\ target.owner = ThisRun[1].val.owner
               /\ target.repo = ThisRun[1].val.repo
               /\ (prRef = "0" \/ Char(prRef, 1) # "0") => Itoa(target.number) = prRef
               /\ prRef = "007" => target.number = 7
        /\ (prRef = "123" /\ remoteURL = "git@github.com:acme/widgets.git") =>
               target = [owner |-> "acme", repo |-> "widgets", number |-> 123]

C21_Witness ==
    /\ pc = "ReferenceResolved"
    /\ prRef = "123"
    /\ remoteURL = "git@github.com:acme/widgets.git"
    /\ Invoked = <<"CurrentRepo">>
    /\ target = [owner |-> "acme", repo |-> "widgets", number |-> 123]

\* C22 as stated: every PRReference the resolver produces has a positive number.
C22_PositiveNumber == ResolutionOK => target.number > 0

\* The segments of a URL reference's path.
PathSegments(ref) == Split(Trim(URLParse(ref).Path, "/"), "/")
WellFormedPRURL(ref) ==
    /\ URLParse(ref).err = Nil
    /\ Len(PathSegments(ref)) = 4
    /\ \A i \in 1..4 : PathSegments(ref)[i] # ""
    /\ PathSegments(ref)[3] = "pull"
    /\ IsInteger(PathSegments(ref)[4])

\* C23 as stated: a URL reference resolves exactly when its path has four
\* non-empty segments, the third "pull" and the fourth an integer, to (segment
\* 1, segment 2, number); every other URL reference fails with InvalidPRURL.
C23_URLForm ==
    (ResolutionDone /\ IsURLReference(prRef)) =>
        IF WellFormedPRURL(prRef)
        THEN /\ ResolutionOK
             /\ target.owner = PathSegments(prRef)[1]
             /\ target.repo = PathSegments(prRef)[2]
             /\ Itoa(target.number) \in {PathSegments(prRef)[4], Tail(PathSegments(prRef)[4])}
        ELSE ResolutionFailed /\ InvalidPRURL(ret)

\* The references of the owner/repo#number family: not a number, not a URL,
\* and with a '#'.
IsHashReference(s) == ~IsInteger(s) /\ ~IsURLReference(s) /\ Contains(s, "#")
RepoPart(s) == Split(s, "#")[1]
NumberPart(s) == Split(s, "#")[2]
WellFormedHashReference(s) ==
    /\ Len(Split(s, "#")) = 2
    /\ Len(Split(RepoPart(s), "/")) = 2
    /\ IsInteger(NumberPart(s))

\* C24 as stated: a '#' reference resolves exactly when it is well formed; a
\* repo part without exactly one '/' fails with InvalidRepoFormat and a
\* non-integer number part fails with InvalidPRNumber.
C24_HashFormEitherError ==
    (ResolutionDone /\ IsHashReference(prRef)) =>
        /\ ResolutionOK <=> WellFormedHashReference(prRef)
        /\ Len(Split(prRef, "#")) = 2 =>
               /\ Len(Split(RepoPart(prRef), "/")) # 2 =>
                      (ResolutionFailed /\ InvalidRepoFormat(ret))
               /\ ~IsInteger(NumberPart(prRef)) =>
                      (ResolutionFailed /\ InvalidPRNumber(ret))

\* C24: a '#' reference resolves exactly when it splits on '#' into two parts,
\* the first of two '/'-separated parts and the second an integer, and then to
\* (owner, repo, number); of two parts, a non-integer number part fails with
\* InvalidPRNumber, and a repo part without exactly one '/' fails with
\* InvalidRepoFormat when the number part is an integer.
C24_HashForm ==
    (ResolutionDone /\ IsHashReference(prRef)) =>
        /\ ResolutionOK <=> WellFormedHashReference(prRef)
        /\ ResolutionOK =>
               /\ target.owner = Split(RepoPart(prRef), "/")[1]
               /\ target.repo = Split(RepoPart(prRef), "/")[2]
               /\ NumberPart(prRef) \in {Itoa(target.number), "+" \o Itoa(target.number)}
        /\ Len(Split(prRef, "#")) = 2 =>
               /\ ~IsInteger(NumberPart(prRef)) =>
                      (ResolutionFailed /\ InvalidPRNumber(ret))
               /\ (IsInteger(NumberPart(prRef)) /\ Len(Split(RepoPart(prRef), "/")) # 2) =>
                      (ResolutionFailed /\ InvalidRepoFormat(ret))

C24_Witness ==
    /\ ResolutionFailed
    /\ prRef = "invalid#abc"
    /\ InvalidPRNumber(ret)

\* C25: a reference that is no integer, does not begin with http:// or
\* https:// and has no '#' fails with ErrInvalidPRRef carrying the reference as
\* it was given, and the run has invoked no collaborator.
C25_Unsupported ==
    (ResolutionDone /\ ~IsInteger(prRef) /\ ~IsURLReference(prRef) /\ ~Contains(prRef, "#")) =>
        /\ ResolutionFailed
        /\ ret = [kind |-> "ErrInvalidPRRef", Ref |-> prRef]
        /\ ThisRun = <<>>

C25_Witness ==
    /\ pc = "Failed"
    /\ prRef = "12a"
    /\ ret = [kind |-> "ErrInvalidPRRef", Ref |-> "12a"]
    /\ calls = <<>>

\* C26: when the reference is a bare number and CurrentRepo failed (no origin
\* remote, or one that is not owner/repo on github.com), MigratePR has failed
\* with RepoResolutionFailed wrapping CurrentRepo's error, has emitted no
\* event, and has invoked no collaborator but CurrentRepo.
C26_RepoResolutionFailed ==
    (ResolutionDone /\ IsInteger(prRef) /\ Len(ThisRun) > 0 /\ ThisRun[1].err # Nil) =>
        /\ pc = "Failed"
        /\ RepoResolutionFailed(ret)
        /\ ret.inner = ThisRun[1].err
        /\ events = <<>>
        /\ Invoked = <<"CurrentRepo">>
        /\ top = "returned" => runs[Len(runs)].ret = ret

C26_Witness ==
    /\ top = "returned"
    /\ prRef = "123"
    /\ remoteURL = "https://gitlab.com/acme/widgets.git"
    /\ RepoResolutionFailed(ret)
    /\ runs[Len(runs)].ret = ret
    /\ events = <<>>

\* C27: resolving a URL reference or a '#' reference, valid or malformed,
\* makes no collaborator call: CurrentRepo is invoked for bare numbers only,
\* and nothing else is invoked before the resolver has returned.
C27_CurrentRepoOnlyForNumbers ==
    ResolutionDone =>
        /\ (IsURLReference(prRef) \/ IsHashReference(prRef)) => ~Called({"CurrentRepo"})
        /\ Called({"CurrentRepo"}) => IsInteger(prRef)
        /\ ResolutionFailed => \A i \in DOMAIN Invoked : Invoked[i] = "CurrentRepo"
        /\ pc = "ReferenceResolved" => \A i \in DOMAIN Invoked : Invoked[i] = "CurrentRepo"

C27_Witness ==
    /\ pc = "ReferenceResolved"
    /\ prRef = "acme/widgets#42"
    /\ target = [owner |-> "acme", repo |-> "widgets", number |-> 42]
    /\ calls = <<>>

-----------------------------------------------------------------------------
(* The Branch Namer (C28..C30), over the PRInfo values of SpecNaming.      *)

\* The names TestGenerateBranchName expects, by PR number.
MigratedName(n) ==
    CASE n = 42 -> "migrated-42"
      [] n = 123 -> "migrated-123"
      [] n = 789 -> "migrated-789"

SlugBytes == {Char(LowerLetters \o Digits \o "-", k) : k \in 1..37}

\* C29: what slugify returns has at most 40 bytes, all of them in [a-z0-9-],
\* begins and ends with no hyphen and has no two hyphens in a row;
\* slugify("Hello World") is "hello-world" and slugify("") is "".
C29_Slug ==
    top = "slugify" =>
        /\ Len(titleSlug) <= 40
        /\ \A i \in 1..Len(titleSlug) : Char(titleSlug, i) \in SlugBytes
        /\ titleSlug # "" => (Char(titleSlug, 1) # "-" /\ Char(titleSlug, Len(titleSlug)) # "-")
        /\ \A i \in 1..(Len(titleSlug) - 1) :
               ~(Char(titleSlug, i) = "-" /\ Char(titleSlug, i + 1) = "-")
        /\ pr.Title = "Hello World" => titleSlug = "hello-world"
        /\ pr.Title = "" => titleSlug = ""

C29_Witness ==
    /\ top = "slugify"
    /\ pr.Title = "Rewrite the configuration loader module -- and its tests"
    /\ titleSlug = "rewrite-the-configuration-loader-module"

\* C30 as stated: the slug-based name is pr-{number}-{author}-{slug}, has at
\* most 80 bytes and does not end with a hyphen; PR 42 of dev titled
\* "Fix bug #9" is named "pr-42-dev-fix-bug-9".
C30_SlugVariantFits ==
    top = "GenerateBranchNameSlug" =>
        /\ HasPrefix(branchName, "pr-" \o Itoa(pr.Number) \o "-" \o pr.Author \o "-")
        /\ Len(branchName) <= 80
        /\ ~HasSuffix(branchName, "-")
        /\ (pr.Number = 42 /\ pr.Author = "dev" /\ pr.Title = "Fix bug #9") =>
               branchName = "pr-42-dev-fix-bug-9"

\* C40: slugify is idempotent: slugifying what slugify returned returns it
\* unchanged, for every title.
C40_Idempotent ==
    [][(top = "slugify" /\ top' = "slugify(slugify)") => titleSlug' = titleSlug]_vars

C40_Witness ==
    /\ top = "slugify(slugify)"
    /\ pr.Title = "Rewrite the configuration loader module -- and its tests"
    /\ titleSlug = "rewrite-the-configuration-loader-module"

\* Whether the run has made this call and the call returned without error.
Returned(op) == \E i \in DOMAIN ThisRun : ThisRun[i].op = op /\ ThisRun[i].err = Nil

\* C34: a real run of MigratePR has emitted the Success event "Successfully
\* migrated PR #{number}" exactly when it is returning nil, and never when it
\* is returning an error; at the moment the event is emitted CheckoutPR, and
\* Push unless noPush, have returned without error.  A dry run never emits it.
C34_SuccessIffNil ==
    /\ [](top \in {"MigratePR", "returned"} =>
             /\ ~opts.DryRun => ((MigratedEvents(events) # {}) <=> (pc = "Done" /\ ret = Nil))
             /\ opts.DryRun => MigratedEvents(events) = {}
             /\ pc = "Failed" => (ret # Nil /\ MigratedEvents(events) = {})
             /\ \A k \in MigratedEvents(events) :
                    events[k].Message = "Successfully migrated PR #" \o Itoa(pr.Number))
    /\ [][MigratedEvents(events') # MigratedEvents(events) =>
              /\ Returned("CheckoutPR")
              /\ ~opts.NoPush => Returned("Push")
              /\ Cardinality(MigratedEvents(events')) = 1]_vars

C34_Witness ==
    /\ top = "returned"
    /\ ~opts.DryRun
    /\ ~opts.NoPush
    /\ ret = Nil
    /\ Returned("Push")
    /\ Cardinality(MigratedEvents(events)) = 1

\* The branch a call names, for the calls that name one.
BranchArgument(c) ==
    CASE c.op = "HasBranch" -> c.args[1]
      [] c.op = "CheckoutPR" -> c.args[4]
      [] c.op = "Push" -> c.args[2]

\* C35: every HasBranch, CheckoutPR and Push call of a run names the same
\* branch, opts.BranchName when that is not empty and else the Branch Namer's
\* name for the fetched PRInfo; GetPR and CheckoutPR are given the owner and
\* repo the resolver returned.
C35_OneName ==
    \A i \in DOMAIN ThisRun :
        /\ ThisRun[i].op \in {"HasBranch", "CheckoutPR", "Push"} =>
               \A p \in Fetched :
                   BranchArgument(ThisRun[i]) =
                       IF opts.BranchName # "" THEN opts.BranchName
                       ELSE "migrated-" \o Itoa(p.Number)
        /\ ThisRun[i].op \in {"GetPR", "CheckoutPR"} =>
               /\ ThisRun[i].args[1] = target.owner
               /\ ThisRun[i].args[2] = target.repo
        /\ ThisRun[i].op \in {"HasBranch", "CheckoutPR", "Push"} => Fetched # {}

C35_Witness ==
    /\ pc = "Done"
    /\ opts.BranchName = CustomBranch
    /\ prRef = "acme/widgets#2"
    /\ \E i, j, k \in DOMAIN ThisRun :
           /\ ThisRun[i].op = "HasBranch" /\ ThisRun[i].args = <<CustomBranch>>
           /\ ThisRun[j].op = "CheckoutPR"
           /\ ThisRun[j].args[1] = "acme" /\ ThisRun[j].args[2] = "widgets"
           /\ ThisRun[j].args[4] = CustomBranch
           /\ ThisRun[k].op = "Push" /\ ThisRun[k].args = <<"origin", CustomBranch>>

\* The names of the branches that CheckoutPR calls before the n-th call created.
CreatedBefore(n) ==
    {calls[j].args[4] : j \in {k \in 1..(n - 1) : calls[k].op = "CheckoutPR" /\ calls[k].err = Nil}}

\* HasBranch has answered true for every branch an earlier CheckoutPR created.
HasBranchReflectsCheckouts ==
    \A i \in DOMAIN calls :
        (calls[i].op = "HasBranch" /\ calls[i].args[1] \in CreatedBefore(i)) => calls[i].val.exists

\* The step makes the CheckoutPR call of the run in progress.
CallsCheckoutPR ==
    /\ Len(calls') = Len(calls) + 1
    /\ calls'[Len(calls')].op = "CheckoutPR"

\* C36: while HasBranch answers true for the branches earlier CheckoutPR calls
\* created, no two CheckoutPR calls name a branch the earlier of them created,
\* and a run whose planned name was created by an earlier run ends with
\* BranchAlreadyExists without calling CheckoutPR; a run whose HasBranch answer
\* was the truth about the local branches calls CheckoutPR only with a name
\* that is not a local branch.
C36_NeverReused ==
    /\ [](HasBranchReflectsCheckouts =>
             /\ \A i \in DOMAIN calls :
                    calls[i].op = "CheckoutPR" => calls[i].args[4] \notin CreatedBefore(i)
             /\ \A i \in DOMAIN ThisRun :
                    (/\ ThisRun[i].op = "HasBranch"
                     /\ pc \in Terminal
                     /\ \E j \in DOMAIN calls : /\ calls[j].run < idx
                                                /\ calls[j].op = "CheckoutPR"
                                                /\ calls[j].err = Nil
                                                /\ calls[j].args[4] = ThisRun[i].args[1])
                    => /\ ret = ErrBranchExists(ThisRun[i].args[1])
                       /\ ~Called({"CheckoutPR"}))
    /\ [][CallsCheckoutPR =>
              \A i \in DOMAIN ThisRun :
                  (/\ ThisRun[i].op = "HasBranch"
                   /\ ThisRun[i].val.exists = (ThisRun[i].args[1] \in locals))
                  => calls'[Len(calls')].args[4] \notin locals]_vars

C36_Witness ==
    /\ top = "MigratePRs"
    /\ prRefs = <<"1", "acme/widgets#2">>
    /\ opts.BranchName = CustomBranch
    /\ idx = 2
    /\ pc = "Failed"
    /\ ret = ErrBranchExists(CustomBranch)
    /\ HasBranchReflectsCheckouts
    /\ CustomBranch \in CreatedBefore(Len(calls) + 1)
    /\ ~Called({"CheckoutPR"})

\* C37: with options.dryRun true neither MigratePR nor MigratePRs emits an
\* event of type Success.
C37_NoSuccessInDryRun ==
    opts.DryRun => \A k \in DOMAIN events : events[k].Type # "success"

\* The command line a dry run shows for a collaborator call.
CommandLine(c) ==
    CASE c.op = "Checkout" -> "git checkout " \o c.args[1]
      [] c.op = "Pull" -> "git pull " \o c.args[1] \o " " \o c.args[2]
      [] c.op = "CheckoutPR" -> "gh pr checkout " \o Itoa(c.args[3]) \o " -b " \o c.args[4]
      [] c.op = "Push" -> "git push -u " \o c.args[1] \o " " \o c.args[2]

\* What a real run did, as command lines: its mutating collaborator calls and
\* then the PR-creation command it suggested.
Performed ==
    LET made == SelectSeq(ThisRun, LAMBDA c : c.op \in Mutating)
        suggested == SelectSeq(events, LAMBDA e : /\ e.Type = "command"
                                                  /\ HasPrefix(e.Detail, "gh pr create "))
    IN  [i \in DOMAIN made |-> CommandLine(made[i])]
            \o [i \in DOMAIN suggested |-> suggested[i].Detail]

\* C38: for every noPush and noCreate, the Command events of a dry run are the
\* mutating collaborator calls and the PR-creation suggestion of a fully
\* successful real run on the same reference, PRInfo and options, in order.
C38_DryRunPreviews ==
    (top = "MigratePR" /\ pc = "Done") =>
        IF opts.DryRun
        THEN CommandDetails(events) = CommandDetails(handleDryRun(pr, branchName, opts, <<>>))
        ELSE Performed = CommandDetails(handleDryRun(pr, branchName, opts, <<>>))

\* The step makes a collaborator call with the caller's context.
CallsWithContext ==
    /\ Len(calls') = Len(calls) + 1
    /\ calls'[Len(calls')].ctx = "ctx"

BranchNameForSeveral == opts.BranchName # "" /\ Len(prRefs) > 1

\* C32: given --branch-name and more than one PR reference, run starts no
\* reference (no StartPR, no MigratePR, no event) and ends in failure having
\* reported "--branch-name can only be used with a single PR".
C32_BranchNameSinglePR ==
    (top \in {"run", "returned"} /\ BranchNameForSeveral) =>
        /\ cli.startPRCalls = <<>>
        /\ cli.migrated = <<>>
        /\ events = <<>>
        /\ cli.pc \in {"flags", "exited"}
        /\ cli.pc = "exited" =>
               /\ top = "returned"
               /\ cli.exit = 1
               /\ cli.errors = <<"--branch-name can only be used with a single PR">>

C32_Witness ==
    /\ top = "returned"
    /\ prRefs = <<"123", "owner/repo#124">>
    /\ opts.BranchName = CustomBranch
    /\ cli.pc = "exited"
    /\ cli.errors = <<"--branch-name can only be used with a single PR">>
    /\ cli.startPRCalls = <<>>

\* The references among refs whose migration fails, in order.
Failures(refs) ==
    SelectSeq(refs, LAMBDA r : MockMigrator_MigratePR(r, opts, <<>>).err # Nil)

\* C33: the run loop starts and migrates the references in argument order,
\* going on after a failure; it reports one error to the UI for each failed
\* reference; and it ends in failure exactly when some reference failed.
C33_RunLoop ==
    (top \in {"run", "returned"} /\ ~BranchNameForSeveral) =>
        /\ cli.startPRCalls = SubSeq(prRefs, 1, Len(cli.startPRCalls))
        /\ cli.migrated = SubSeq(prRefs, 1, Len(cli.migrated))
        /\ Len(cli.startPRCalls) = Len(cli.migrated) + (IF cli.pc = "MigratePR" THEN 1 ELSE 0)
        /\ cli.errors = [k \in DOMAIN Failures(cli.migrated) |->
                            ErrorText(MockMigrator_MigratePR(Failures(cli.migrated)[k],
                                                             opts, <<>>).err)]
        /\ cli.failed <=> Failures(cli.migrated) # <<>>
        /\ top = "returned" =>
               /\ cli.startPRCalls = prRefs
               /\ cli.migrated = prRefs
               /\ cli.exit = 1 <=> Failures(prRefs) # <<>>
               /\ cli.pc = (IF cli.exit = 1 THEN "exited" ELSE "returned")

C33_Witness ==
    /\ top = "returned"
    /\ prRefs = <<"999", "123">>
    /\ cli.startPRCalls = <<"999", "123">>
    /\ cli.migrated = <<"999", "123">>
    /\ cli.errors = <<"PR #999 not found">>
    /\ cli.exit = 1
    /\ \E k \in DOMAIN events : events[k].Message = "Branch: pr-123-johndoe-fix-memory-leak-in-worker-pool"
    /\ events[Len(events)].Message = "Migration complete!"

\* The collaborator calls of the run at a position of the batch, without the
\* position: method, arguments, context and what the collaborator answered.
CallsOf(position) ==
    LET made == SelectSeq(calls, LAMBDA c : c.run = position)
    IN  [k \in DOMAIN made |->
            [op |-> made[k].op, args |-> made[k].args, ctx |-> made[k].ctx,
             err |-> made[k].err, val |-> made[k].val]]

\* The call without the collaborator's answer.
Request(c) == [op |-> c.op, args |-> c.args, ctx |-> c.ctx]

\* The handlers the events of a log were delivered to.
DeliveredTo(log) == {log[k].Handler : k \in DOMAIN log}

\* C31: a migrator starts with the no-op handler, and only SetEventHandler
\* replaces it, changing nothing else; every event is appended to the log of
\* deliveries once, after those before it, for the handler installed at that
\* moment; and two runs of one reference under the same options make the same
\* calls as long as the collaborators answer them alike, and return the same
\* when all the answers are alike, whichever handlers were installed.
C31_PureObserver ==
    /\ handler = DefaultHandler
    /\ [][handler' # handler =>
              UNCHANGED <<cli, titleSlug, top, prRefs, opts, idx, pc, target, pr, branchName,
                          ret, errors, successCount, batchRet, calls, events, current, locals,
                          origin, remoteURL, cancelled, before, runs>>]_vars
    /\ [][/\ Len(events') >= Len(events)
          /\ SubSeq(events', 1, Len(events)) = events
          /\ \A k \in (Len(events) + 1)..Len(events') : events'[k].Handler = handler]_vars
    /\ [](Len(prRefs) = 2 /\ prRefs[1] = prRefs[2] =>
             LET one == CallsOf(1)
                 two == CallsOf(2)
             IN  /\ \A k \in DOMAIN one \cap DOMAIN two :
                        SubSeq(one, 1, k - 1) = SubSeq(two, 1, k - 1)
                            => Request(one[k]) = Request(two[k])
                 /\ (Len(runs) = 2 /\ runs[2].ret # Running /\ Len(one) = Len(two)
                        /\ one = two) => runs[1].ret = runs[2].ret
                 /\ (Len(runs) = 2 /\ runs[2].ret # Running
                        /\ \A k \in DOMAIN one \cap DOMAIN two : one[k] = two[k])
                        => Len(one) = Len(two))

C31_Witness ==
    /\ top = "returned"
    /\ prRefs = <<"1", "1">>
    /\ ~opts.DryRun
    /\ ~opts.NoPush
    /\ DeliveredTo(SelectSeq(events, LAMBDA e : e.Message = "Pushing to origin..."))
           = {DefaultHandler, "second"}
    /\ "first" \in DeliveredTo(events)
    /\ CallsOf(1) = CallsOf(2)
    /\ Len(CallsOf(1)) = 7
    /\ runs[1].ret = runs[2].ret

====
